---------------------------- MODULE Spec2Model ----------------------------
(***************************************************************************)
(* State-machine model of monitor_server.py: the hardware-monitor reader   *)
(* (HardwareMonitorReader), its selectors, the snapshot assembly of        *)
(* read_metrics and the /api/metrics view.                                 *)
(*                                                                         *)
(* Strings are sequences of one-character strings, so that lower(),        *)
(* strip(), "in" and startswith() are computed rather than assumed.        *)
(* Floats are exact rationals (or nan / inf / -inf), None is a value of    *)
(* its own.  All sensor readings of the model lie on values where binary   *)
(* floating point and exact arithmetic round alike: a rounding tie only    *)
(* happens at a dyadic value (x.25, x.5, x.75), which a float holds        *)
(* exactly.                                                                *)
(***************************************************************************)
EXTENDS Integers, Sequences, FiniteSets, TLC

(***************************************************************************)
(* Strings                                                                 *)
(***************************************************************************)
Upper == <<"A","B","C","D","E","F","G","H","I","J","K","L","M",
           "N","O","P","Q","R","S","T","U","V","W","X","Y","Z">>

LowerCase == <<"a","b","c","d","e","f","g","h","i","j","k","l","m",
           "n","o","p","q","r","s","t","u","v","w","x","y","z">>

\* str.lower() on one character
LowerChar(c) ==
    IF \E i \in DOMAIN Upper : Upper[i] = c
    THEN LowerCase[CHOOSE i \in DOMAIN Upper : Upper[i] = c]
    ELSE c

\* str.lower()
Lower(s) == [i \in DOMAIN s |-> LowerChar(s[i])]

\* Python's  key in name  on strings
Contains(s, key) ==
    \E i \in 1..(Len(s) - Len(key) + 1) : SubSeq(s, i, i + Len(key) - 1) = key

\* str.startswith
StartsWith(s, key) ==
    Len(s) >= Len(key) /\ SubSeq(s, 1, Len(key)) = key

RECURSIVE LStrip(_)
LStrip(s) == IF s # <<>> /\ Head(s) = " " THEN LStrip(Tail(s)) ELSE s

RECURSIVE RStrip(_)
RStrip(s) ==
    IF s # <<>> /\ s[Len(s)] = " " THEN RStrip(SubSeq(s, 1, Len(s) - 1)) ELSE s

\* str.strip()
Strip(s) == RStrip(LStrip(s))

(***************************************************************************)
(* Floats: [k, n, d] with k in {"fin","nan","inf","ninf"}, value n/d in     *)
(* lowest terms with d > 0 when k = "fin".  None is [k |-> "none"].        *)
(***************************************************************************)
None == [k |-> "none", n |-> 0, d |-> 1]

NaN == [k |-> "nan", n |-> 0, d |-> 1]

PosInf == [k |-> "inf", n |-> 0, d |-> 1]

NegInf == [k |-> "ninf", n |-> 0, d |-> 1]

Abs(x) == IF x < 0 THEN -x ELSE x

RECURSIVE GCD(_, _)
GCD(a, b) == IF b = 0 THEN a ELSE GCD(b, a % b)

\* the rational n/d (d # 0) in lowest terms
Fin(n, d) ==
    LET g == GCD(Abs(n), Abs(d))
        s == IF d < 0 THEN -1 ELSE 1
    IN  [k |-> "fin", n |-> s * (n \div g), d |-> s * (d \div g)]

Num(n) == Fin(n, 1)

IsFin(x) == x.k = "fin"

\* float + float
FAdd(a, b) ==
    CASE a.k = "nan" \/ b.k = "nan" -> NaN
      [] a.k = "inf" -> IF b.k = "ninf" THEN NaN ELSE PosInf
      [] a.k = "ninf" -> IF b.k = "inf" THEN NaN ELSE NegInf
      [] b.k = "inf" -> PosInf
      [] b.k = "ninf" -> NegInf
      [] OTHER -> Fin(a.n * b.d + b.n * a.d, a.d * b.d)

\* a > b on floats (any comparison with nan is False)
FGt(a, b) ==
    CASE a.k = "nan" \/ b.k = "nan" -> FALSE
      [] a.k = "inf" -> b.k # "inf"
      [] a.k = "ninf" -> FALSE
      [] b.k = "inf" -> FALSE
      [] b.k = "ninf" -> TRUE
      [] OTHER -> a.n * b.d > b.n * a.d

\* a <= b on floats
FLe(a, b) ==
    CASE a.k = "nan" \/ b.k = "nan" -> FALSE
      [] a.k = "ninf" -> TRUE
      [] b.k = "inf" -> TRUE
      [] a.k = "inf" -> FALSE
      [] b.k = "ninf" -> FALSE
      [] OTHER -> a.n * b.d <= b.n * a.d

\* float / positive int (the length of a non-empty list)
FDivInt(a, m) == IF IsFin(a) THEN Fin(a.n, a.d * m) ELSE a

\* float / float * 100.0, for a finite numerator and a finite non-zero divisor
FPercent(a, b) == Fin(a.n * b.d * 100, a.d * b.n)

\* sum(vals): 0 + vals[1] + vals[2] + ...
RECURSIVE SumFrom(_, _)
SumFrom(acc, vals) ==
    IF vals = <<>> THEN acc ELSE SumFrom(FAdd(acc, Head(vals)), Tail(vals))

PySum(vals) == SumFrom(Num(0), vals)

\* max(vals) of a non-empty list: keeps the first item unless a later one is greater
RECURSIVE MaxFrom(_, _)
MaxFrom(best, vals) ==
    IF vals = <<>> THEN best
    ELSE MaxFrom(IF FGt(Head(vals), best) THEN Head(vals) ELSE best, Tail(vals))

PyMax(vals) == MaxFrom(Head(vals), Tail(vals))

\* sum(vals) / len(vals)
PyAvg(vals) == FDivInt(PySum(vals), Len(vals))

Pow10(digits) == IF digits = 0 THEN 1 ELSE 10

\* round(x, digits) for digits in {0, 1}: nearest multiple of 10^-digits, a tie
\* going to the even multiple; nan and inf are returned as they are
PyRound(x, digits) ==
    IF ~IsFin(x) THEN x
    ELSE LET p == Pow10(digits)
             num == x.n * p
             q == num \div x.d
             r == num - q * x.d
             up == 2 * r > x.d \/ (2 * r = x.d /\ q % 2 = 1)
         IN  Fin(IF up THEN q + 1 ELSE q, p)


(***************************************************************************)
(* The provider's enums (LibreHardwareMonitor.Hardware), as the reader     *)
(* resolves them at construction.  getattr(enum, name, None) is GetAttr.   *)
(***************************************************************************)
NoAttr == "None"

HardwareType ==
    {"Motherboard", "SuperIO", "Cpu", "Memory", "GpuNvidia", "GpuAmd",
     "GpuIntel", "Storage", "Network", "Cooler", "EmbeddedController",
     "Psu", "Battery"}

SensorType ==
    {"Voltage", "Current", "Power", "Clock", "Temperature", "Load",
     "Frequency", "Fan", "Flow", "Control", "Level", "Factor", "Data",
     "SmallData", "Throughput"}

GetAttr(enum, name) == IF name \in enum THEN name ELSE NoAttr

\* Python's  a or b  on enum members
OrElse(a, b) == IF a # NoAttr THEN a ELSE b

HT_CPU == OrElse(GetAttr(HardwareType, "Cpu"), GetAttr(HardwareType, "CPU"))

HT_MAINBOARD ==
    OrElse(GetAttr(HardwareType, "Mainboard"), GetAttr(HardwareType, "Motherboard"))

HT_RAM == OrElse(GetAttr(HardwareType, "Memory"), GetAttr(HardwareType, "RAM"))

HT_NETWORK == GetAttr(HardwareType, "Network")

ST_TEMP == GetAttr(SensorType, "Temperature")

ST_LOAD == GetAttr(SensorType, "Load")

ST_CLOCK == GetAttr(SensorType, "Clock")

ST_POWER == GetAttr(SensorType, "Power")

ST_DATA == GetAttr(SensorType, "Data")

\* the tuple tested by  is_ram_hw
ram_types == {GetAttr(HardwareType, "RAM"), GetAttr(HardwareType, "Memory")}

gpu_types ==
    {GetAttr(HardwareType, "GpuNvidia"), GetAttr(HardwareType, "GpuAti"),
     GetAttr(HardwareType, "GpuAmd"), GetAttr(HardwareType, "GpuAmdRadeon"),
     GetAttr(HardwareType, "GpuIntel")}

(***************************************************************************)
(* Names.  A sensor name and a key are held as strings; NameChars and      *)
(* KeyChars spell them out, and the tests of the selectors are computed    *)
(* on the spelled-out names.                                               *)
(***************************************************************************)
NameChars ==
    ("CCD1 (Tdie)" :> <<"C","C","D","1"," ","(","T","d","i","e",")">>) @@
    ("CCD2 (Tdie)" :> <<"C","C","D","2"," ","(","T","d","i","e",")">>) @@
    ("Core #1" :> <<"C","o","r","e"," ","#","1">>) @@
    ("CPU Core #2" :> <<"C","P","U"," ","C","o","r","e"," ","#","2">>) @@
    ("CPU Package" :> <<"C","P","U"," ","P","a","c","k","a","g","e">>) @@
    ("CPU Total" :> <<"C","P","U"," ","T","o","t","a","l">>) @@
    (" Total " :> <<" ","T","o","t","a","l"," ">>) @@
    ("CPU Cores" :> <<"C","P","U"," ","C","o","r","e","s">>) @@
    ("Bus Speed" :> <<"B","u","s"," ","S","p","e","e","d">>) @@
    ("CPU Socket" :> <<"C","P","U"," ","S","o","c","k","e","t">>) @@
    ("System" :> <<"S","y","s","t","e","m">>) @@
    ("Memory" :> <<"M","e","m","o","r","y">>) @@
    ("Memory Used" :> <<"M","e","m","o","r","y"," ","U","s","e","d">>) @@
    ("Memory Available" :> <<"M","e","m","o","r","y"," ","A","v","a","i","l","a","b","l","e">>) @@
    ("Memory Free" :> <<"M","e","m","o","r","y"," ","F","r","e","e">>) @@
    ("Physical" :> <<"P","h","y","s","i","c","a","l">>) @@
    ("Virtual Memory" :> <<"V","i","r","t","u","a","l"," ","M","e","m","o","r","y">>) @@
    ("Virtual Memory Used" :> <<"V","i","r","t","u","a","l"," ","M","e","m","o","r","y"," ","U","s","e","d">>) @@
    ("GPU Core" :> <<"G","P","U"," ","C","o","r","e">>) @@
    ("GPU Hot Spot" :> <<"G","P","U"," ","H","o","t"," ","S","p","o","t">>) @@
    ("GPU Memory" :> <<"G","P","U"," ","M","e","m","o","r","y">>) @@
    ("GPU Memory Junction" :> <<"G","P","U"," ","M","e","m","o","r","y"," ","J","u","n","c","t","i","o","n">>) @@
    ("GPU Package" :> <<"G","P","U"," ","P","a","c","k","a","g","e">>) @@
    ("Network Utilization" :> <<"N","e","t","w","o","r","k"," ","U","t","i","l","i","z","a","t","i","o","n">>)

KeyChars ==
    ("ccd" :> <<"c","c","d">>) @@
    ("core" :> <<"c","o","r","e">>) @@
    ("package" :> <<"p","a","c","k","a","g","e">>) @@
    ("tdie" :> <<"t","d","i","e">>) @@
    ("tctl" :> <<"t","c","t","l">>) @@
    ("cpu" :> <<"c","p","u">>) @@
    ("cpu socket" :> <<"c","p","u"," ","s","o","c","k","e","t">>) @@
    ("cpu total" :> <<"c","p","u"," ","t","o","t","a","l">>) @@
    ("total" :> <<"t","o","t","a","l">>) @@
    ("cpu core" :> <<"c","p","u"," ","c","o","r","e">>) @@
    ("clock" :> <<"c","l","o","c","k">>) @@
    ("virtual" :> <<"v","i","r","t","u","a","l">>) @@
    ("used" :> <<"u","s","e","d">>) @@
    ("available" :> <<"a","v","a","i","l","a","b","l","e">>) @@
    ("free" :> <<"f","r","e","e">>) @@
    ("memory" :> <<"m","e","m","o","r","y">>) @@
    ("ram" :> <<"r","a","m">>) @@
    ("load" :> <<"l","o","a","d">>) @@
    ("usage" :> <<"u","s","a","g","e">>) @@
    ("hot spot" :> <<"h","o","t"," ","s","p","o","t">>) @@
    ("hotspot" :> <<"h","o","t","s","p","o","t">>) @@
    ("junction" :> <<"j","u","n","c","t","i","o","n">>) @@
    ("gpu core" :> <<"g","p","u"," ","c","o","r","e">>) @@
    ("gpu" :> <<"g","p","u">>) @@
    ("ppt" :> <<"p","p","t">>) @@
    ("socket" :> <<"s","o","c","k","e","t">>)

\* name = (sensor.Name or "").lower()
lower_name == [n \in DOMAIN NameChars |-> Lower(NameChars[n])]

\* key in name
has_key ==
    [n \in DOMAIN NameChars |->
        [k \in DOMAIN KeyChars |-> Contains(lower_name[n], KeyChars[k])]]

\* name.startswith(key)
starts_with_key ==
    [n \in DOMAIN NameChars |->
        [k \in DOMAIN KeyChars |-> StartsWith(lower_name[n], KeyChars[k])]]

\* name == key
is_key ==
    [n \in DOMAIN NameChars |->
        [k \in DOMAIN KeyChars |-> lower_name[n] = KeyChars[k]]]

\* (sensor.Name or "").strip().lower() == key
stripped_is_key ==
    [n \in DOMAIN NameChars |->
        [k \in DOMAIN KeyChars |-> Lower(Strip(NameChars[n])) = KeyChars[k]]]

In(s, key) == has_key[s.Name][key]

InAny(s, keys) == \E k \in keys : In(s, k)

NameStarts(s, key) == starts_with_key[s.Name][key]

NameIs(s, key) == is_key[s.Name][key]

StrippedNameIs(s, key) == stripped_is_key[s.Name][key]

(***************************************************************************)
(* The provider's device tree (self.computer.Hardware).  A device is       *)
(* [HardwareType, Sensors, SubHardware]; a sensor is [SensorType, Name,    *)
(* Value, Range], Value being the reading loaded by the last successful    *)
(* Update() and Range the readings the physical sensor can deliver.        *)
(***************************************************************************)
RECURSIVE SeqProduct(_)
SeqProduct(sets) ==
    IF sets = <<>> THEN {<<>>}
    ELSE {<<h>> \o t : h \in Head(sets), t \in SeqProduct(Tail(sets))}

\* what one Update() call can do: raise, or load a fresh reading into every sensor
Raises == [ok |-> FALSE, vals |-> <<>>]

Outcomes(sensors) ==
    {Raises} \cup
    {[ok |-> TRUE, vals |-> v] :
        v \in SeqProduct([i \in DOMAIN sensors |-> sensors[i].Range])}

DeviceEnvs(dev) ==
    {[top |-> t, subs |-> s] :
        t \in Outcomes(dev.Sensors),
        s \in SeqProduct([j \in DOMAIN dev.SubHardware |->
                             Outcomes(dev.SubHardware[j].Sensors)])}

\* every way the provider can answer one refresh pass over the tree
Envs(hw) == SeqProduct([i \in DOMAIN hw |-> DeviceEnvs(hw[i])])

\* the effect of a successful Update() on a device's sensors
Refreshed(sensors, vals) ==
    [i \in DOMAIN sensors |-> [sensors[i] EXCEPT !.Value = vals[i]]]

\* try_update without the except clause
try_update_unguarded(sensors, outcome) ==
    [ok |-> outcome.ok,
     raised |-> ~outcome.ok,
     Sensors |-> IF outcome.ok THEN Refreshed(sensors, outcome.vals) ELSE sensors]

\* try: X.Update()  except Exception: continue
\* raised: the exception leaves the try statement (it never does)
try_update(sensors, outcome) ==
    [ok |-> outcome.ok,
     raised |-> FALSE,
     Sensors |-> IF outcome.ok THEN Refreshed(sensors, outcome.vals) ELSE sensors]

\* the inner loop of _update_all over hardware.SubHardware, from index j
RECURSIVE update_subs(_, _, _, _)
update_subs(subs, i, j, env) ==
    IF j > Len(subs) THEN [subs |-> subs, calls |-> <<>>, raised |-> FALSE]
    ELSE LET r == try_update(subs[j].Sensors, env[j])
             call == [dev |-> <<i, j>>, ok |-> r.ok]
         IN  IF r.raised
             THEN [subs |-> subs, calls |-> <<call>>, raised |-> TRUE]
             ELSE LET rest == update_subs(
                                 [subs EXCEPT ![j].Sensors = r.Sensors], i, j + 1, env)
                  IN  [rest EXCEPT !.calls = <<call>> \o rest.calls]

\* the outer loop of _update_all over self.computer.Hardware, from index i
RECURSIVE update_from(_, _, _)
update_from(hw, i, env) ==
    IF i > Len(hw) THEN [Hardware |-> hw, calls |-> <<>>, raised |-> FALSE]
    ELSE LET r == try_update(hw[i].Sensors, env[i].top)
             call == [dev |-> <<i>>, ok |-> r.ok]
         IN  IF r.raised
             THEN [Hardware |-> hw, calls |-> <<call>>, raised |-> TRUE]
             ELSE IF ~r.ok
             THEN LET rest == update_from(hw, i + 1, env)
                  IN  [rest EXCEPT !.calls = <<call>> \o rest.calls]
             ELSE LET s == update_subs(hw[i].SubHardware, i, 1, env[i].subs)
                      hw1 == [hw EXCEPT ![i].Sensors = r.Sensors,
                                        ![i].SubHardware = s.subs]
                  IN  IF s.raised
                      THEN [Hardware |-> hw1, calls |-> <<call>> \o s.calls,
                            raised |-> TRUE]
                      ELSE LET rest == update_from(hw1, i + 1, env)
                           IN  [rest EXCEPT !.calls = <<call>> \o s.calls \o rest.calls]

\* HardwareMonitorReader._update_all
update_all(hw, env) == update_from(hw, 1, env)

\* one entry (hardware, sensor, parent_hardware) of the flattened list; dev is the
\* place of the owning device in the tree, parent the top-level device's kind
Entry(path, owner, sensor, top) ==
    [dev |-> path, SensorType |-> sensor.SensorType,
     Name |-> sensor.Name, Value |-> sensor.Value, parent |-> top.HardwareType]

RECURSIVE Flatten(_)
Flatten(seqs) == IF seqs = <<>> THEN <<>> ELSE Head(seqs) \o Flatten(Tail(seqs))

\* HardwareMonitorReader._collect_sensors
collect_sensors(hw) ==
    Flatten([i \in DOMAIN hw |->
        [k \in DOMAIN hw[i].Sensors |-> Entry(<<i>>, hw[i], hw[i].Sensors[k], hw[i])]
        \o Flatten([j \in DOMAIN hw[i].SubHardware |->
              [k \in DOMAIN hw[i].SubHardware[j].Sensors |->
                  Entry(<<i, j>>, hw[i].SubHardware[j],
                        hw[i].SubHardware[j].Sensors[k], hw[i])]])])

(***************************************************************************)
(* The finite-value filter and the selectors                               *)
(***************************************************************************)
\* is_finite without the isnan and isinf tests
is_finite_not_none(value) == value # None

\* HardwareMonitorReader._is_finite: None is not finite; nan and inf are not
is_finite(value) ==
    IF value = None THEN FALSE ELSE IsFin(value)

\* the values float(sensor.Value) of the matching sensors, in list order
Vals(matching) == [i \in DOMAIN matching |-> matching[i].Value]

\* the value assigned last by a loop that assigns at every matching sensor
LastVal(matching) ==
    IF matching = <<>> THEN None ELSE matching[Len(matching)].Value

is_temp(s) == ~(ST_TEMP # NoAttr /\ s.SensorType # ST_TEMP)

is_load(s) == ST_LOAD = NoAttr \/ s.SensorType = ST_LOAD

is_clock(s) == ST_CLOCK = NoAttr \/ s.SensorType = ST_CLOCK

\* sensor.SensorType.__str__().endswith(suffix), for the suffixes used
TypeEndsWith(t, suffix) ==
    \/ t = suffix
    \/ suffix = "Data" /\ t = "SmallData"

is_power(s) ==
    \/ ST_POWER # NoAttr /\ s.SensorType = ST_POWER
    \/ ST_POWER = NoAttr /\ TypeEndsWith(s.SensorType, "Power")

is_data(s) ==
    \/ ST_DATA # NoAttr /\ s.SensorType = ST_DATA
    \/ ST_DATA = NoAttr /\ TypeEndsWith(s.SensorType, "Data")

is_ram_hw(s) == s.parent \in ram_types

\* the four lists filled by the loop of _select_cpu_temps
cpu_temp_pools(sensors) ==
    LET cpu(s) == is_temp(s) /\ s.parent = HT_CPU
        ccd(s) == cpu(s) /\ In(s, "ccd")
        core(s) == cpu(s) /\ ~In(s, "ccd")
                          /\ In(s, "core")
        pkg(s) == cpu(s) /\ ~In(s, "ccd")
                         /\ ~In(s, "core")
                         /\ InAny(s, {"package", "tdie", "tctl", "cpu"})
        mb(s) == is_temp(s) /\ s.parent # HT_CPU /\ s.parent = HT_MAINBOARD
                 /\ InAny(s, {"cpu", "cpu socket", "package", "tdie", "tctl"})
    IN  [ccd_sensor_temps |->
             Vals(SelectSeq(sensors, LAMBDA s : ccd(s) /\ is_finite(s.Value))),
         core_sensor_temps |->
             Vals(SelectSeq(sensors, LAMBDA s : core(s) /\ is_finite(s.Value))),
         package_temps |->
             Vals(SelectSeq(sensors, LAMBDA s : pkg(s) /\ is_finite(s.Value))),
         mb_cpu_temps |->
             Vals(SelectSeq(sensors, LAMBDA s : mb(s) /\ is_finite(s.Value)))]

\* cpu_hotspot falling back to the CCD readings as well
cpu_hotspot_or_ccd(pools) ==
    IF pools.core_sensor_temps # <<>> THEN PyMax(pools.core_sensor_temps)
    ELSE IF pools.package_temps # <<>> THEN PyMax(pools.package_temps)
    ELSE IF pools.mb_cpu_temps # <<>> THEN PyMax(pools.mb_cpu_temps)
    ELSE IF pools.ccd_sensor_temps # <<>> THEN PyMax(pools.ccd_sensor_temps)
    ELSE None

\* Hotspot: max core sensor, fallback to package, then mainboard
cpu_hotspot(pools) ==
    IF pools.core_sensor_temps # <<>> THEN PyMax(pools.core_sensor_temps)
    ELSE IF pools.package_temps # <<>> THEN PyMax(pools.package_temps)
    ELSE IF pools.mb_cpu_temps # <<>> THEN PyMax(pools.mb_cpu_temps)
    ELSE None

\* cpu_core_avg preferring the per-core readings to the CCD readings
cpu_core_avg_cores_first(pools) ==
    LET vals == IF pools.core_sensor_temps # <<>> THEN pools.core_sensor_temps
                ELSE IF pools.ccd_sensor_temps # <<>> THEN pools.ccd_sensor_temps
                ELSE IF pools.package_temps # <<>> THEN pools.package_temps
                ELSE IF pools.mb_cpu_temps # <<>> THEN pools.mb_cpu_temps
                ELSE <<>>
    IN  IF vals # <<>> THEN PyAvg(vals) ELSE None

\* Core temp: average of CCDs if present, else of cores, else package/mainboard
cpu_core_avg(pools) ==
    LET vals == IF pools.ccd_sensor_temps # <<>> THEN pools.ccd_sensor_temps
                ELSE IF pools.core_sensor_temps # <<>> THEN pools.core_sensor_temps
                ELSE IF pools.package_temps # <<>> THEN pools.package_temps
                ELSE IF pools.mb_cpu_temps # <<>> THEN pools.mb_cpu_temps
                ELSE <<>>
    IN  IF vals # <<>> THEN PyAvg(vals) ELSE None

\* HardwareMonitorReader._select_cpu_temps: (core_avg, hotspot)
select_cpu_temps(sensors) ==
    LET pools == cpu_temp_pools(sensors)
    IN  [core_avg |-> cpu_core_avg(pools), hotspot |-> cpu_hotspot(pools)]

\* _select_cpu_total_load returning the last sensor named as the total
select_cpu_total_load_last(sensors) ==
    LET cpu_load(s) == s.parent = HT_CPU /\ is_load(s)
        total == SelectSeq(sensors, LAMBDA s :
                     /\ cpu_load(s)
                     /\ (StrippedNameIs(s, "cpu total") \/ StrippedNameIs(s, "total"))
                     /\ is_finite(s.Value))
        loads == Vals(SelectSeq(sensors, LAMBDA s : cpu_load(s) /\ is_finite(s.Value)))
    IN  IF total # <<>> THEN total[Len(total)].Value
        ELSE IF loads # <<>> THEN PyAvg(loads)
        ELSE None

\* HardwareMonitorReader._select_cpu_total_load
select_cpu_total_load(sensors) ==
    LET cpu_load(s) == s.parent = HT_CPU /\ is_load(s)
        total == SelectSeq(sensors, LAMBDA s :
                     /\ cpu_load(s)
                     /\ (StrippedNameIs(s, "cpu total") \/ StrippedNameIs(s, "total"))
                     /\ is_finite(s.Value))
        loads == Vals(SelectSeq(sensors, LAMBDA s : cpu_load(s) /\ is_finite(s.Value)))
    IN  IF total # <<>> THEN total[1].Value
        ELSE IF loads # <<>> THEN PyAvg(loads)
        ELSE None

\* HardwareMonitorReader._select_cpu_core_clocks: (max_clock, avg_clock)
select_cpu_core_clocks(sensors) ==
    LET clocks == Vals(SelectSeq(sensors, LAMBDA s :
                     /\ s.parent = HT_CPU /\ is_clock(s)
                     /\ \/ NameStarts(s, "cpu core")
                        \/ NameStarts(s, "core")
                        \/ In(s, "clock")
                     /\ is_finite(s.Value)))
    IN  IF clocks # <<>>
        THEN [max_clock |-> PyMax(clocks), avg_clock |-> PyAvg(clocks)]
        ELSE [max_clock |-> None, avg_clock |-> None]

\* _select_ram_used_free_gb taking the load of any Load sensor of the device
select_ram_any_load(sensors) ==
    LET phys(s) == is_ram_hw(s) /\ ~In(s, "virtual")
    IN  [used_gb |-> LastVal(SelectSeq(sensors, LAMBDA s :
                        /\ phys(s) /\ is_data(s)
                        /\ In(s, "used") /\ is_finite(s.Value))),
         free_gb |-> LastVal(SelectSeq(sensors, LAMBDA s :
                        /\ phys(s) /\ is_data(s)
                        /\ \/ In(s, "available")
                           \/ In(s, "free")
                        /\ is_finite(s.Value))),
         load_percent |-> LastVal(SelectSeq(sensors, LAMBDA s :
                        /\ is_ram_hw(s) /\ is_load(s)
                        /\ is_finite(s.Value)))]

\* _select_ram_used_free_gb reading the Data sensors of virtual memory too
select_ram_virtual_data(sensors) ==
    LET phys(s) == is_ram_hw(s) /\ ~In(s, "virtual")
        named_load(s) ==
            \/ NameIs(s, "memory") \/ NameIs(s, "ram")
            \/ In(s, "memory") \/ In(s, "ram")
            \/ In(s, "load") \/ In(s, "usage")
    IN  [used_gb |-> LastVal(SelectSeq(sensors, LAMBDA s :
                        /\ is_ram_hw(s) /\ is_data(s)
                        /\ In(s, "used") /\ is_finite(s.Value))),
         free_gb |-> LastVal(SelectSeq(sensors, LAMBDA s :
                        /\ is_ram_hw(s) /\ is_data(s)
                        /\ \/ In(s, "available")
                           \/ In(s, "free")
                        /\ is_finite(s.Value))),
         load_percent |-> LastVal(SelectSeq(sensors, LAMBDA s :
                        /\ phys(s) /\ is_load(s) /\ named_load(s)
                        /\ is_finite(s.Value)))]

\* HardwareMonitorReader._select_ram_used_free_gb: (used_gb, free_gb, load_percent)
select_ram_used_free_gb(sensors) ==
    LET phys(s) == is_ram_hw(s) /\ ~In(s, "virtual")
        named_load(s) ==
            \/ NameIs(s, "memory") \/ NameIs(s, "ram")
            \/ In(s, "memory") \/ In(s, "ram")
            \/ In(s, "load") \/ In(s, "usage")
    IN  [used_gb |-> LastVal(SelectSeq(sensors, LAMBDA s :
                        /\ phys(s) /\ is_data(s)
                        /\ In(s, "used") /\ is_finite(s.Value))),
         free_gb |-> LastVal(SelectSeq(sensors, LAMBDA s :
                        /\ phys(s) /\ is_data(s)
                        /\ \/ In(s, "available")
                           \/ In(s, "free")
                        /\ is_finite(s.Value))),
         load_percent |-> LastVal(SelectSeq(sensors, LAMBDA s :
                        /\ phys(s) /\ is_load(s) /\ named_load(s)
                        /\ is_finite(s.Value)))]

\* HardwareMonitorReader._select_ram_usage (no caller in the program)
select_ram_usage(sensors) ==
    LET load == SelectSeq(sensors, LAMBDA s :
                    is_ram_hw(s) /\ is_load(s) /\ is_finite(s.Value))
        used == LastVal(SelectSeq(sensors, LAMBDA s :
                    /\ is_ram_hw(s) /\ is_data(s)
                    /\ In(s, "used") /\ is_finite(s.Value)))
        available == LastVal(SelectSeq(sensors, LAMBDA s :
                    /\ is_ram_hw(s) /\ is_data(s)
                    /\ In(s, "available") /\ is_finite(s.Value)))
    IN  IF load # <<>> THEN load[1].Value
        ELSE IF /\ used # None /\ available # None
                /\ FGt(FAdd(used, available), Num(0))
        THEN FPercent(used, FAdd(used, available))
        ELSE None

\* MaxOrNone taking the value appended last
MaxOrNone_last(vals) == IF vals # <<>> THEN vals[Len(vals)] ELSE None

\* max(vals) if vals else None
MaxOrNone(vals) == IF vals # <<>> THEN PyMax(vals) ELSE None

\* HardwareMonitorReader._select_gpu_metrics
select_gpu_metrics(sensors) ==
    LET gpu(s) == s.parent \in gpu_types
        temp(s) == ST_TEMP = NoAttr \/ s.SensorType = ST_TEMP
        hot(s) == InAny(s, {"hot spot", "hotspot", "junction"})
        temps == Vals(SelectSeq(sensors, LAMBDA s :
                    gpu(s) /\ temp(s) /\ ~hot(s) /\ is_finite(s.Value)))
        hotspot_temps == Vals(SelectSeq(sensors, LAMBDA s :
                    gpu(s) /\ temp(s) /\ hot(s) /\ is_finite(s.Value)))
        loads == Vals(SelectSeq(sensors, LAMBDA s :
                    /\ gpu(s) /\ is_load(s)
                    /\ \/ In(s, "core")
                       \/ (NameIs(s, "gpu core") \/ NameIs(s, "gpu"))
                    /\ is_finite(s.Value)))
        powers == Vals(SelectSeq(sensors, LAMBDA s :
                    gpu(s) /\ is_power(s) /\ is_finite(s.Value)))
        mem_clocks == Vals(SelectSeq(sensors, LAMBDA s :
                    /\ gpu(s) /\ is_clock(s)
                    /\ In(s, "memory") /\ is_finite(s.Value)))
        core_clocks == Vals(SelectSeq(sensors, LAMBDA s :
                    /\ gpu(s) /\ is_clock(s)
                    /\ ~(In(s, "memory") /\ is_finite(s.Value))
                    /\ \/ In(s, "gpu core")
                       \/ In(s, "core")
                    /\ is_finite(s.Value)))
    IN  [core_temp |-> MaxOrNone(temps), hotspot |-> MaxOrNone(hotspot_temps),
         load |-> MaxOrNone(loads), power |-> MaxOrNone(powers),
         core_clock |-> MaxOrNone(core_clocks), mem_clock |-> MaxOrNone(mem_clocks)]

(***************************************************************************)
(* read_metrics                                                            *)
(***************************************************************************)
\* net_keep without the range test
net_keep_any(val) == TRUE

\* Clip to sane range:  if 0.0 <= val <= 100.0: net_load_values.append(val)
net_keep(val) == FLe(Num(0), val) /\ FLe(val, Num(100))

\* the network part of read_metrics: net_load
select_net_load(sensors) ==
    LET net_load_values == Vals(SelectSeq(sensors, LAMBDA s :
            /\ s.parent = HT_NETWORK /\ is_load(s)
            /\ is_finite(s.Value)
            /\ net_keep(s.Value)))
    IN  IF net_load_values # <<>> THEN PyMax(net_load_values) ELSE None

\* the CPU package power part of read_metrics: cpu_power
select_cpu_power(sensors) ==
    LET cpu_powers == Vals(SelectSeq(sensors, LAMBDA s :
            /\ s.parent = HT_CPU /\ is_power(s)
            /\ InAny(s, {"package", "cpu", "ppt", "socket", "total"})
            /\ is_finite(s.Value)))
    IN  MaxOrNone(cpu_powers)

\* round_or_none showing an absent value as zero
round_or_zero(value, digits) ==
    IF value = None THEN Num(0) ELSE PyRound(value, digits)

\* _round_or_none
round_or_none(value, digits) ==
    IF value = None THEN None ELSE PyRound(value, digits)

\* the locals of read_metrics after the selectors ran
locals_of(temps, load, clocks, power, ram, gpu, net) ==
    [cpu_core_temp |-> temps.core_avg,
     cpu_hotspot_temp |-> temps.hotspot,
     cpu_load |-> load,
     cpu_clock_max_mhz |-> clocks.max_clock,
     cpu_clock_avg_mhz |-> clocks.avg_clock,
     cpu_power |-> power,
     ram_usage |-> ram.load_percent,
     ram_used_gb |-> ram.used_gb,
     ram_free_gb |-> ram.free_gb,
     gpu_core_temp |-> gpu.core_temp,
     gpu_hotspot_temp |-> gpu.hotspot,
     gpu_load |-> gpu.load,
     gpu_power |-> gpu.power,
     gpu_core_clock |-> gpu.core_clock,
     gpu_mem_clock |-> gpu.mem_clock,
     net_load |-> net]

\* the selector calls of read_metrics, in its order
select_all(sensors) ==
    locals_of(select_cpu_temps(sensors),
              select_cpu_total_load(sensors),
              select_cpu_core_clocks(sensors),
              select_cpu_power(sensors),
              select_ram_used_free_gb(sensors),
              select_gpu_metrics(sensors),
              select_net_load(sensors))

\* the dictionary returned by read_metrics
snapshot_of(v, time) ==
    [cpu |-> [core_temperature_c |-> round_or_none(v.cpu_core_temp, 1),
              hotspot_temperature_c |-> round_or_none(v.cpu_hotspot_temp, 1),
              usage_percent |-> round_or_none(v.cpu_load, 1),
              max_clock_mhz |-> round_or_none(v.cpu_clock_max_mhz, 0),
              avg_clock_mhz |-> round_or_none(v.cpu_clock_avg_mhz, 0),
              power_w |-> round_or_none(v.cpu_power, 1)],
     ram |-> [usage_percent |-> round_or_none(v.ram_usage, 1),
              used_gb |-> round_or_none(v.ram_used_gb, 1),
              free_gb |-> round_or_none(v.ram_free_gb, 1)],
     gpu |-> [core_temperature_c |-> round_or_none(v.gpu_core_temp, 1),
              hotspot_temperature_c |-> round_or_none(v.gpu_hotspot_temp, 1),
              usage_percent |-> round_or_none(v.gpu_load, 1),
              core_clock_mhz |-> round_or_none(v.gpu_core_clock, 0),
              memory_clock_mhz |-> round_or_none(v.gpu_mem_clock, 0),
              power_w |-> round_or_none(v.gpu_power, 1)],
     net |-> [usage_percent |-> round_or_none(v.net_load, 1)],
     timestamp |-> time]

\* no selector has run
NoLocals ==
    [cpu_core_temp |-> None, cpu_hotspot_temp |-> None, cpu_load |-> None,
     cpu_clock_max_mhz |-> None, cpu_clock_avg_mhz |-> None, cpu_power |-> None,
     ram_usage |-> None, ram_used_gb |-> None, ram_free_gb |-> None,
     gpu_core_temp |-> None, gpu_hotspot_temp |-> None, gpu_load |-> None,
     gpu_power |-> None, gpu_core_clock |-> None, gpu_mem_clock |-> None,
     net_load |-> None]

\* a response that carries no snapshot
NoSnapshot ==
    [cpu |-> [core_temperature_c |-> None, hotspot_temperature_c |-> None,
              usage_percent |-> None, max_clock_mhz |-> None,
              avg_clock_mhz |-> None, power_w |-> None],
     ram |-> [usage_percent |-> None, used_gb |-> None, free_gb |-> None],
     gpu |-> [core_temperature_c |-> None, hotspot_temperature_c |-> None,
              usage_percent |-> None, core_clock_mhz |-> None,
              memory_clock_mhz |-> None, power_w |-> None],
     net |-> [usage_percent |-> None],
     timestamp |-> 0]

\* read_metrics after _update_all returned u and _collect_sensors the list
\* sensors: the selectors, the rounding and the timestamp
read_selected(u, sensors, v, time) ==
    [raised |-> FALSE, Hardware |-> u.Hardware, calls |-> u.calls,
     sensors |-> sensors, selected |-> v, data |-> snapshot_of(v, time)]

read_collected(u, sensors, time) ==
    read_selected(u, sensors, select_all(sensors), time)

\* read_metrics after _update_all returned u (raised: an exception left it, and
\* leaves read_metrics)
read_updated(u, time) ==
    IF u.raised
    THEN [raised |-> TRUE, Hardware |-> u.Hardware, calls |-> u.calls,
          sensors |-> <<>>, selected |-> NoLocals, data |-> NoSnapshot]
    ELSE read_collected(u, collect_sensors(u.Hardware), time)

\* HardwareMonitorReader.read_metrics on the tree hw, the provider answering the
\* refresh pass as env and the clock reading time
read_metrics(hw, env, time) == read_updated(update_all(hw, env), time)

(***************************************************************************)
(* The UI configuration: sensor order and refresh interval, kept in        *)
(* UI_CONFIG and persisted in config.ini.  A text of the file is a         *)
(* sequence of atoms: words without comma or blank, "," and " "; a number  *)
(* is written digit by digit.                                              *)
(***************************************************************************)
SENSOR_KEYS_DEFAULT ==
    <<"cpu_core_temp", "cpu_hotspot_temp", "cpu_usage", "net_load",
      "cpu_clock_max", "cpu_clock_avg", "cpu_power", "ram_usage", "ram_used",
      "ram_free", "gpu_core_temp", "gpu_hotspot_temp", "gpu_clock",
      "gpu_mem_clock", "gpu_usage", "gpu_power">>

\* the initial UI_CONFIG, and the result load_ui_config starts from
DefaultConfig == [order |-> SENSOR_KEYS_DEFAULT, update_interval_sec |-> Num(1)]

ALIAS_TO_CANON == [cpu_temp |-> "cpu_core_temp"]

\* an empty dict
EmptyDict == [k \in {} |-> <<>>]

CANON_TO_EXTERNAL == EmptyDict

\* dict.get(key, default)
DictGet(dict, key, default) ==
    IF key \in DOMAIN dict THEN dict[key] ELSE default

\* x in a list
Member(x, list) == \E i \in DOMAIN list : list[i] = x

\* the first loop of _normalize_order over the rest of order; seen holds the
\* members of normalized
RECURSIVE normalize_known(_, _)
normalize_known(order, normalized) ==
    IF order = <<>> THEN normalized
    ELSE normalize_known(Tail(order),
             IF /\ Member(DictGet(ALIAS_TO_CANON, Head(order), Head(order)),
                          SENSOR_KEYS_DEFAULT)
                /\ ~Member(DictGet(ALIAS_TO_CANON, Head(order), Head(order)),
                           normalized)
             THEN Append(normalized,
                         DictGet(ALIAS_TO_CANON, Head(order), Head(order)))
             ELSE normalized)

\* append_missing appending every default key
append_missing_all(normalized) == normalized \o SENSOR_KEYS_DEFAULT

\* the second loop of _normalize_order: the missing keys, in default order
append_missing(normalized) ==
    normalized \o SelectSeq(SENSOR_KEYS_DEFAULT,
                            LAMBDA key : ~Member(key, normalized))

\* _normalize_order
normalize_order(order) == append_missing(normalize_known(order, <<>>))

\* ",".join(list)
RECURSIVE Join(_)
Join(list) ==
    IF list = <<>> THEN <<>>
    ELSE IF Len(list) = 1 THEN <<Head(list)>>
    ELSE <<Head(list), ",">> \o Join(Tail(list))

\* text.split(","): the pieces between the commas, piece being the one begun
RECURSIVE SplitFrom(_, _)
SplitFrom(text, piece) ==
    IF text = <<>> THEN <<piece>>
    ELSE IF Head(text) = "," THEN <<piece>> \o SplitFrom(Tail(text), <<>>)
    ELSE SplitFrom(Tail(text), Append(piece, Head(text)))

Split(text) == SplitFrom(text, <<>>)

\* the string a stripped piece spells: its word, or a string that is no key
\* when it holds blanks or several words
Spelled(piece) == IF Len(piece) = 1 THEN piece[1] ELSE "?"

\* [s.strip() for s in order_str.split(",") if s.strip()]
order_list_of(order_str) ==
    LET pieces == Split(order_str)
        kept == SelectSeq(pieces, LAMBDA s : Strip(s) # <<>>)
    IN  [i \in DOMAIN kept |-> Spelled(Strip(kept[i]))]

Digits == <<"0", "1", "2", "3", "4", "5", "6", "7", "8", "9">>

\* the decimal digits of a natural number
RECURSIVE DigitsOf(_)
DigitsOf(m) ==
    IF m < 10 THEN <<Digits[m + 1]>>
    ELSE Append(DigitsOf(m \div 10), Digits[(m % 10) + 1])

\* Thousandths with a tie going up
Thousandths_half_up(x) ==
    LET num == x.n * 1000
        q == num \div x.d
        r == num - q * x.d
    IN  IF 2 * r >= x.d THEN q + 1 ELSE q

\* x * 1000 rounded to the nearest integer, a tie going to the even one
Thousandths(x) ==
    LET num == x.n * 1000
        q == num \div x.d
        r == num - q * x.d
    IN  IF 2 * r > x.d \/ (2 * r = x.d /\ q % 2 = 1) THEN q + 1 ELSE q

\* f"{val:.3f}" for val >= 0.05 or nan or inf
FormatF3(val) ==
    CASE val.k = "nan" -> <<"nan">>
      [] val.k = "inf" -> <<"inf">>
      [] OTHER ->
           DigitsOf(Thousandths(val) \div 1000) \o <<".">>
           \o <<Digits[((Thousandths(val) \div 100) % 10) + 1],
                Digits[((Thousandths(val) \div 10) % 10) + 1],
                Digits[(Thousandths(val) % 10) + 1]>>

IsDigit(a) == \E i \in DOMAIN Digits : Digits[i] = a

DigitValue(a) == (CHOOSE i \in DOMAIN Digits : Digits[i] = a) - 1

\* the natural number a non-empty sequence of digits spells
RECURSIVE NatOf(_)
NatOf(ds) ==
    IF Len(ds) = 1 THEN DigitValue(ds[1])
    ELSE 10 * NatOf(SubSeq(ds, 1, Len(ds) - 1)) + DigitValue(ds[Len(ds)])

\* the place of the decimal point in a text, 0 if it has none
PointAt(text) ==
    IF \E i \in DOMAIN text : text[i] = "."
    THEN CHOOSE i \in DOMAIN text : text[i] = "." ELSE 0

\* float(text) accepts the text: digits with at most one point, nan, inf
FloatParses(text) ==
    LET t == Strip(text)
    IN  \/ t \in {<<"nan">>, <<"inf">>}
        \/ /\ t # <<>>
           /\ \E i \in DOMAIN t : IsDigit(t[i])
           /\ \A i \in DOMAIN t : IsDigit(t[i]) \/ (t[i] = "." /\ i = PointAt(t))

\* float(text) for a text it accepts
ParseFloat(text) ==
    LET t == Strip(text)
        p == PointAt(t)
        ds == SelectSeq(t, IsDigit)
    IN  CASE t = <<"nan">> -> NaN
          [] t = <<"inf">> -> PosInf
          [] p = 0 -> Num(NatOf(ds))
          [] OTHER -> Fin(NatOf(ds), IF Len(t) - p = 0 THEN 1
                                     ELSE IF Len(t) - p = 1 THEN 10
                                     ELSE IF Len(t) - p = 2 THEN 100
                                     ELSE 1000)

\* config.ini: whether it exists, whether configparser can parse it, and the
\* sections it holds, each a dict from option to text
NoFile == [exists |-> FALSE, parses |-> TRUE, cfg |-> EmptyDict]

Malformed == [exists |-> TRUE, parses |-> FALSE, cfg |-> EmptyDict]

IniFile(cfg) == [exists |-> TRUE, parses |-> TRUE, cfg |-> cfg]

\* cfg.get("ui", option, fallback=fallback)
cfg_get(cfg, option, fallback) == DictGet(cfg["ui"], option, fallback)

\* cfg.set("ui", option, value)
cfg_set(cfg, option, value) == [cfg EXCEPT !["ui"] = (option :> value) @@ @]

\* 0.05, the smallest refresh interval
MinInterval == Fin(1, 20)

\* load_ui_config: the update_interval_sec of a parsed file with a ui section
load_interval(cfg) ==
    IF FloatParses(cfg_get(cfg, "update_interval_sec", <<"1", ".", "0">>))
    THEN PyMax(<<MinInterval,
                 ParseFloat(cfg_get(cfg, "update_interval_sec", <<"1", ".", "0">>))>>)
    ELSE Num(1)

\* load_ui_config falling back to the smallest interval instead of 1.0
load_ui_config_min_interval(file) ==
    IF ~file.exists \/ ~file.parses \/ "ui" \notin DOMAIN file.cfg
    THEN [order |-> SENSOR_KEYS_DEFAULT, update_interval_sec |-> MinInterval]
    ELSE [order |-> normalize_order(order_list_of(cfg_get(file.cfg, "order", <<",">>))),
          update_interval_sec |-> load_interval(file.cfg)]

\* load_ui_config on the file as it is on disk
load_ui_config(file) ==
    IF ~file.exists \/ ~file.parses \/ "ui" \notin DOMAIN file.cfg
    THEN DefaultConfig
    ELSE [order |-> normalize_order(order_list_of(cfg_get(file.cfg, "order", <<",">>))),
          update_interval_sec |-> load_interval(file.cfg)]

\* save_ui_config: the parser after cfg.read, a fresh one if the file is
\* missing or cannot be parsed, with its ui section added if it had none
save_read(file) ==
    IF file.exists /\ file.parses /\ "ui" \in DOMAIN file.cfg THEN file.cfg
    ELSE IF file.exists /\ file.parses THEN ("ui" :> EmptyDict) @@ file.cfg
    ELSE ("ui" :> EmptyDict)

\* external_list listing the keys from the last to the first
external_list_reversed(canon_list) ==
    [i \in DOMAIN canon_list |->
        DictGet(CANON_TO_EXTERNAL, canon_list[Len(canon_list) + 1 - i],
                canon_list[Len(canon_list) + 1 - i])]

\* [CANON_TO_EXTERNAL.get(k, k) for k in canon_list]
external_list(canon_list) ==
    [i \in DOMAIN canon_list |-> DictGet(CANON_TO_EXTERNAL, canon_list[i], canon_list[i])]

\* save_ui_config: the parser when the file is opened for writing; order and
\* update_interval_sec are the entries of UI_CONFIG and never None
save_cfg(file, order, update_interval_sec) ==
    cfg_set(cfg_set(save_read(file), "order",
                    Join(external_list(normalize_order(order)))),
            "update_interval_sec",
            FormatF3(PyMax(<<MinInterval, update_interval_sec>>)))

\* how  with open(CONFIG_PATH, "w") as f: cfg.write(f)  can end: written;
\* open raises; a write raises after open has truncated the file
Flushes == {"ok", "open_fails", "write_fails"}

\* the file after the flush of cfg ended as flush
flushed(file, cfg, flush) ==
    CASE flush = "ok" -> IniFile(cfg)
      [] flush = "open_fails" -> file
      [] OTHER -> IniFile(EmptyDict)

\* save_ui_config: whether it raised, and the file it leaves
save_ui_config(file, order, update_interval_sec, flush) ==
    [raised |-> flush # "ok",
     file |-> flushed(file, save_cfg(file, order, update_interval_sec), flush)]

\* the JSON values of the model: type is "object", "array", "string",
\* "number" or "null"; an object holds order and update_interval_sec
\* payload.get("order") of an object: kind "absent", "list" or "string"
\* payload.get("update_interval_sec"): kind "absent", "number", "string", "list"
EmptyObject ==
    [type |-> "object",
     order |-> [kind |-> "absent", items |-> <<>>],
     update_interval_sec |-> [kind |-> "absent", num |-> None, text |-> <<>>]]

\* a response of /api/config
ConfigResponse(status, error, ok, order, interval) ==
    [status |-> status, error |-> error, ok |-> ok,
     order |-> order, update_interval_sec |-> interval]

NoConfigResponse == ConfigResponse(0, "", FALSE, <<>>, None)

\* config_order storing the submitted list as it is
config_order_raw(config, order) ==
    IF order.kind = "list" THEN order.items ELSE config.order

\* config_view: UI_CONFIG["order"] after the assignment at order
config_order(config, order) ==
    IF order.kind = "list" THEN normalize_order(order.items) ELSE config.order

\* config_interval without max(0.05, ...)
config_interval_unclamped(config, interval) ==
    CASE interval.kind = "number" -> interval.num
      [] interval.kind = "string" /\ FloatParses(interval.text) ->
             ParseFloat(interval.text)
      [] OTHER -> config.update_interval_sec

\* config_interval converting JSON numbers only
config_interval_numbers_only(config, interval) ==
    CASE interval.kind = "number" -> PyMax(<<MinInterval, interval.num>>)
      [] OTHER -> config.update_interval_sec

\* config_view: UI_CONFIG["update_interval_sec"] after the try statement
config_interval(config, interval) ==
    CASE interval.kind = "number" -> PyMax(<<MinInterval, interval.num>>)
      [] interval.kind = "string" /\ FloatParses(interval.text) ->
             PyMax(<<MinInterval, ParseFloat(interval.text)>>)
      [] OTHER -> config.update_interval_sec

\* config_view from the call of save_ui_config on, UI_CONFIG being config
config_saved(config, saved) ==
    [response |-> IF saved.raised
                  THEN ConfigResponse(500, "Failed to save config", FALSE, <<>>, None)
                  ELSE ConfigResponse(200, "", TRUE, <<>>, None),
     UI_CONFIG |-> config,
     file |-> saved.file]

\* config_view with a decoded payload
config_write(payload, config, file, flush) ==
    IF payload.type # "object"
    THEN \* payload.get raises AttributeError, which leaves the view
         [response |-> ConfigResponse(500, "Server Error (500)", FALSE, <<>>, None),
          UI_CONFIG |-> config, file |-> file]
    ELSE config_saved(
             [order |-> config_order(config, payload.order),
              update_interval_sec |->
                  config_interval(config, payload.update_interval_sec)],
             save_ui_config(file,
                 config_order(config, payload.order),
                 config_interval(config, payload.update_interval_sec), flush))

\* config_view
config_view(request, config, file, flush) ==
    IF request.method = "GET"
    THEN [response |-> ConfigResponse(200, "", FALSE, config.order,
                                      config.update_interval_sec),
          UI_CONFIG |-> config, file |-> file]
    ELSE IF request.body.form \in {"undecodable", "invalid"}
    THEN [response |-> ConfigResponse(400, "Invalid JSON", FALSE, <<>>, None),
          UI_CONFIG |-> config, file |-> file]
    ELSE config_write(IF request.body.form = "empty" THEN EmptyObject
                      ELSE request.body.value,
                      config, file, flush)

(***************************************************************************)
(* The machines of the model.  MaxSensors bounds the sensors of a device,  *)
(* MaxRamSensors those of a memory device of RamNameMachines,              *)
(* MaxPoolSensors those of a device of PoolMachines, MaxTime the readings  *)
(* of the clock.                                                           *)
(***************************************************************************)
MaxSensors == 4

MaxRamSensors == 3

MaxPoolSensors == 3

MaxTime == 1

\* a sensor of the catalog: its kind, its name, the readings it can deliver
Sen(type, name, range) == [SensorType |-> type, Name |-> name, Range |-> range]

\* the sub-sequences of a catalog
RECURSIVE SubSeqs(_)
SubSeqs(cat) ==
    IF cat = <<>> THEN {<<>>}
    ELSE LET r == SubSeqs(Tail(cat)) IN r \cup {<<Head(cat)>> \o t : t \in r}

Picks(cat) == {p \in SubSeqs(cat) : Len(p) <= MaxSensors}

\* the sequences of at most k distinct members of a set
RECURSIVE Arrangements(_, _)
Arrangements(S, k) ==
    IF k = 0 THEN {<<>>}
    ELSE {<<>>} \cup
         UNION {{<<x>> \o t : t \in Arrangements(S \ {x}, k - 1)} : x \in S}

\* the sensors of a pick, each holding one of its readings
Installed(pick) ==
    SeqProduct([i \in DOMAIN pick |->
        {[SensorType |-> pick[i].SensorType, Name |-> pick[i].Name,
          Value |-> v, Range |-> pick[i].Range] : v \in pick[i].Range}])

Device(kind, sensors, subs) ==
    [HardwareType |-> kind, Sensors |-> sensors, SubHardware |-> subs]

Devices(kind, picks) ==
    {Device(kind, s, <<>>) : s \in UNION {Installed(p) : p \in picks}}

CpuTempCatalog ==
    <<Sen("Temperature", "CCD1 (Tdie)", {Num(60), NaN}),
      Sen("Temperature", "CCD2 (Tdie)", {Num(64)}),
      Sen("Temperature", "Core #1", {Num(70), None}),
      Sen("Temperature", "CPU Core #2", {Num(85)}),
      Sen("Temperature", "CPU Package", {Fin(289, 4)})>>

MainboardCatalog ==
    <<Sen("Temperature", "CPU Socket", {Num(55), PosInf}),
      Sen("Temperature", "System", {Num(40)})>>

CpuCatalog ==
    <<Sen("Load", "CPU Total", {Fin(25, 2), NaN}),
      Sen("Load", "CPU Core #2", {Num(80)}),
      Sen("Clock", "Core #1", {Fin(37996, 10), Num(4200)}),
      Sen("Clock", "Bus Speed", {Num(100)}),
      Sen("Power", "CPU Package", {Fin(42349, 1000), None}),
      Sen("Power", "CPU Cores", {Num(30)})>>

RamCatalog ==
    {Sen("Load", "Memory", {Num(50), NaN}),
     Sen("Data", "Memory Used", {Num(8), Num(1)}),
     Sen("Data", "Memory Available", {Num(8), Num(0)}),
     Sen("Data", "Virtual Memory Used", {Num(20)})}

GpuCatalog ==
    <<Sen("Temperature", "GPU Core", {Num(65), NaN}),
      Sen("Temperature", "GPU Hot Spot", {Fin(323, 4)}),
      Sen("Load", "GPU Core", {Num(99), NegInf}),
      Sen("Power", "GPU Package", {Fin(241, 2), PosInf}),
      Sen("Clock", "GPU Core", {Fin(3601, 2)}),
      Sen("Clock", "GPU Memory", {Num(7000), None})>>

NetCatalog ==
    <<Sen("Load", "Network Utilization", {Num(45), NaN}),
      Sen("Load", "Network Utilization", {Num(150), Num(-5)}),
      Sen("Load", "Network Utilization", {Num(30)})>>

\* a CPU and a mainboard whose Super I/O chip carries the board's sensors
CpuTempMachines ==
    {<<cpu, Device("Motherboard", <<>>, <<sio>>)>> :
        cpu \in Devices("Cpu", Picks(CpuTempCatalog)),
        sio \in Devices("SuperIO", Picks(MainboardCatalog))}

CpuMachines == {<<cpu>> : cpu \in Devices("Cpu", Picks(CpuCatalog))}

RamMachines ==
    {<<ram>> : ram \in Devices("Memory", Arrangements(RamCatalog, MaxSensors))}

GpuMachines == {<<gpu>> : gpu \in Devices("GpuNvidia", Picks(GpuCatalog))}

\* one network device per adapter, each with its utilization sensor
NetMachines ==
    {[i \in DOMAIN p |-> Device("Network", <<p[i]>>, <<>>)] :
        p \in UNION {Installed(q) : q \in Picks(NetCatalog)}}

\* the memory sensors by name: Load and Data sensors of physical and of
\* virtual memory, two of a name where the last one decides
RamNameCatalog ==
    {Sen("Load", "Memory", {Num(50), NaN}),
     Sen("Load", "Memory", {Num(60)}),
     Sen("Load", "Virtual Memory", {Num(70)}),
     Sen("Load", "Physical", {Num(30)}),
     Sen("Data", "Memory Used", {Num(8), NaN}),
     Sen("Data", "Memory Used", {Num(3)}),
     Sen("Data", "Memory Free", {Num(4)}),
     Sen("Data", "Memory Available", {Num(6)}),
     Sen("Data", "Virtual Memory Used", {Num(20)})}

RamNameMachines ==
    {<<ram>> : ram \in Devices("Memory", Arrangements(RamNameCatalog, MaxRamSensors))}

\* the Load sensors of a CPU: two named as the total, two cores, and a clock
CpuLoadCatalog ==
    {Sen("Load", "CPU Total", {Fin(25, 2), NaN}),
     Sen("Load", " Total ", {Num(20)}),
     Sen("Load", "Core #1", {Num(40)}),
     Sen("Load", "CPU Core #2", {Num(80)}),
     Sen("Clock", "Core #1", {Num(4200)})}

\* the Temperature sensors of a GPU: two of the core, two of the hot spot,
\* and a load
GpuTempCatalog ==
    {Sen("Temperature", "GPU Core", {Num(65), NaN}),
     Sen("Temperature", "GPU Memory", {Num(50)}),
     Sen("Temperature", "GPU Hot Spot", {Fin(323, 4)}),
     Sen("Temperature", "GPU Memory Junction", {Num(90)}),
     Sen("Load", "GPU Core", {Num(99)})}

\* a CPU, or a GPU of one of two vendors, with its sensors in every order
PoolMachines ==
    {<<cpu>> : cpu \in Devices("Cpu", Arrangements(CpuLoadCatalog, MaxPoolSensors))}
    \cup UNION {{<<gpu>> : gpu \in Devices(kind, Arrangements(GpuTempCatalog, MaxPoolSensors))} :
                   kind \in {"GpuNvidia", "GpuAmd"}}

Machines ==
    CpuTempMachines \cup CpuMachines \cup RamMachines \cup GpuMachines
    \cup NetMachines

(***************************************************************************)
(* The configuration requests and files of the model.  MaxOrderLen bounds  *)
(* the length of a submitted order, MaxRequests the configuration requests *)
(* of a run.                                                               *)
(***************************************************************************)
MaxOrderLen == 2

MaxRequests == 2

\* the strings submitted as keys: the legacy alias, canonical keys, no key
OrderWords == {"cpu_temp", "cpu_core_temp", "gpu_power", "cpu_usage", "fan_rpm"}

\* the lists of at most n OrderWords
RECURSIVE ListsUpTo(_)
ListsUpTo(n) ==
    IF n = 0 THEN {<<>>}
    ELSE ListsUpTo(n - 1) \cup
         {Append(l, w) : l \in {m \in ListsUpTo(n - 1) : Len(m) = n - 1},
                         w \in OrderWords}

\* payload.get("order"): missing, a list, or a string
OrderValues ==
    {[kind |-> "absent", items |-> <<>>], [kind |-> "string", items |-> <<>>]}
    \cup {[kind |-> "list", items |-> l] : l \in ListsUpTo(MaxOrderLen)}

\* payload.get("update_interval_sec"): missing, 0.01, 0.05, 2.5, 0.0625, NaN,
\* the strings "fast" and "2.5", a list
IntervalValues ==
    {[kind |-> "absent", num |-> None, text |-> <<>>],
     [kind |-> "number", num |-> Fin(1, 100), text |-> <<>>],
     [kind |-> "number", num |-> Fin(1, 20), text |-> <<>>],
     [kind |-> "number", num |-> Fin(5, 2), text |-> <<>>],
     [kind |-> "number", num |-> Fin(1, 16), text |-> <<>>],
     [kind |-> "number", num |-> NaN, text |-> <<>>],
     [kind |-> "string", num |-> None, text |-> <<"fast">>],
     [kind |-> "string", num |-> None, text |-> <<"2", ".", "5">>],
     [kind |-> "list", num |-> None, text |-> <<>>]}

\* the values json.loads returns: objects with an order, with an interval,
\* with the order gpu_power, cpu_usage and an interval, and values that are
\* no object
JsonValues ==
    {[type |-> "object", order |-> o, update_interval_sec |-> i] :
        o \in OrderValues, i \in IntervalValues \cap {EmptyObject.update_interval_sec}}
    \cup {[type |-> "object", order |-> o, update_interval_sec |-> i] :
        o \in {EmptyObject.order, [kind |-> "list", items |-> <<"gpu_power", "cpu_usage">>]},
        i \in IntervalValues}
    \cup {[EmptyObject EXCEPT !.type = t] : t \in {"array", "number", "string", "null"}}

\* request.body: empty, bytes that are not UTF-8, text that is not JSON, JSON
Bodies ==
    {[form |-> f, value |-> EmptyObject] : f \in {"empty", "undecodable", "invalid"}}
    \cup {[form |-> "json", value |-> v] : v \in JsonValues}

Requests ==
    {[method |-> "GET", body |-> [form |-> "empty", value |-> EmptyObject]]}
    \cup {[method |-> "POST", body |-> b] : b \in Bodies}

NoRequest == [method |-> "", body |-> [form |-> "empty", value |-> EmptyObject]]

\* config.ini as the program can find it: missing; not parsable; empty;
\* without ui section; written by hand with blanks, an alias, an empty piece,
\* an unknown key and a duplicate; with an interval below the minimum and no
\* order; with an interval that is no number
Files ==
    {NoFile, Malformed, IniFile(EmptyDict),
     IniFile("window" :> ("theme" :> <<"dark">>)),
     IniFile("ui" :> (("order" :> <<" ", "gpu_power", " ", ",", "cpu_temp", ",",
                                    ",", "fan_rpm", ",", "gpu_power">>)
                      @@ ("update_interval_sec" :> <<"0", ".", "5">>))),
     IniFile("ui" :> ("update_interval_sec" :> <<"0", ".", "0", "1">>)),
     IniFile("ui" :> (("order" :> <<"cpu_usage">>)
                      @@ ("update_interval_sec" :> <<"fast">>)))}

\* the threads of the server, and a thread that serves no request: at is the
\* statement it stands at, the other fields are its local variables
MaxWorkers == 2

Workers == 1..MaxWorkers

Idle ==
    [at |-> "idle", kind |-> "", payload |-> EmptyObject, sensors |-> <<>>,
     data |-> NoSnapshot, order |-> <<>>, update_interval_sec |-> None,
     cfg |-> EmptyDict, status |-> 0]

\* the JSON objects the concurrent writes carry: an order, an interval, both
ThreadedPayloads ==
    {[EmptyObject EXCEPT !.order = [kind |-> "list", items |-> <<"gpu_power">>]],
     [EmptyObject EXCEPT !.update_interval_sec =
          [kind |-> "number", num |-> Fin(5, 2), text |-> <<>>]],
     [EmptyObject EXCEPT !.order = [kind |-> "list", items |-> <<"cpu_usage">>],
                         !.update_interval_sec =
          [kind |-> "number", num |-> Fin(1, 2), text |-> <<>>]]}

\* a memory device with its Load sensor
ThreadedMachines ==
    {<<ram>> : ram \in Devices("Memory", {<<Sen("Load", "Memory", {Num(50), Num(75)})>>})}

(***************************************************************************)
(* The server                                                              *)
(***************************************************************************)
VARIABLES
    hardware,    \* the provider's device tree
    pc,          \* "start", "serving", "exited"
    ohm_reader,  \* the module global: "None" or "reader"
    calls,       \* the Update() calls of the last read cycle, in order
    sensors,     \* the flattened sensor list of the last read cycle
    selected,    \* what the selectors returned in the last read cycle
    response,    \* the last response of /api/metrics
    unchanged,   \* the last read cycle followed an answered one and found
                 \* every reading of the provider as that cycle left it
    UI_CONFIG,   \* the module global: [order, update_interval_sec]
    config_file, \* config.ini on disk
    request,     \* the last request to /api/config
    config_response, \* the last response of /api/config
    served,      \* the number of requests to /api/config answered
    workers      \* the threads serving concurrent requests, each with its locals

metrics_vars == <<hardware, calls, sensors, selected, response, unchanged>>

config_vars == <<UI_CONFIG, config_file, request, config_response, served>>

vars == <<pc, ohm_reader, metrics_vars, config_vars, workers>>

\* what time.time() can return
Times == 0..MaxTime

NoResponse == [status |-> 0, error |-> "", data |-> NoSnapshot]

NotInitialized ==
    [status |-> 500, error |-> "LibreHardwareMonitor not initialized",
     data |-> NoSnapshot]

\* Django's answer to an exception leaving a view
ServerError == [status |-> 500, error |-> "Server Error (500)", data |-> NoSnapshot]

\* answer smoothing used_gb with the value of the response before
answer_smoothed(r) ==
    [response |-> IF r.raised THEN ServerError
                  ELSE [status |-> 200, error |-> "",
                        data |-> [r.data EXCEPT !.ram.used_gb =
                            IF response.status = 200 /\ @ # None
                                   /\ response.data.ram.used_gb # None
                            THEN FDivInt(FAdd(response.data.ram.used_gb, @), 2)
                            ELSE @]],
     Hardware |-> r.Hardware, calls |-> r.calls,
     sensors |-> r.sensors, selected |-> r.selected]

\* what metrics_json answers when read_metrics returned (or raised) r
answer(r) ==
    [response |-> IF r.raised THEN ServerError
                  ELSE [status |-> 200, error |-> "", data |-> r.data],
     Hardware |-> r.Hardware, calls |-> r.calls,
     sensors |-> r.sensors, selected |-> r.selected]

\* metrics_json without the test of ohm_reader
metrics_json_unguarded(reader, hw, env, time) == answer(read_metrics(hw, env, time))

\* metrics_json: the response and what the read cycle did
metrics_json(reader, hw, env, time) ==
    IF reader = "None"
    THEN [response |-> NotInitialized, Hardware |-> hw, calls |-> <<>>,
          sensors |-> <<>>, selected |-> NoLocals]
    ELSE answer(read_metrics(hw, env, time))

\* the state after the module is loaded, on the machine hw and with the
\* configuration file file
Loaded(hw, file) ==
    /\ hardware = hw
    /\ pc = "start"
    /\ ohm_reader = "None"
    /\ calls = <<>>
    /\ sensors = <<>>
    /\ selected = NoLocals
    /\ response = NoResponse
    /\ unchanged = FALSE
    /\ UI_CONFIG = DefaultConfig
    /\ config_file = file
    /\ request = NoRequest
    /\ config_response = NoConfigResponse
    /\ served = 0
    /\ workers = [w \in Workers |-> Idle]

\* main(): the configuration is loaded, the reader constructed and the
\* server started
MainStarts ==
    /\ pc = "start"
    /\ UI_CONFIG' = load_ui_config(config_file)
    /\ ohm_reader' = "reader"
    /\ pc' = "serving"
    /\ UNCHANGED <<metrics_vars, config_file, request, config_response, served,
                   workers>>

\* main(): CompositeMetricsReader(...) raises and main() ends with it
MainFails ==
    /\ pc = "start"
    /\ UI_CONFIG' = load_ui_config(config_file)
    /\ pc' = "exited"
    /\ UNCHANGED <<ohm_reader, metrics_vars, config_file, request,
                   config_response, served, workers>>

\* the module serves as ROOT_URLCONF of a host that never ran main()
ServedWithoutMain ==
    /\ pc = "start"
    /\ pc' = "serving"
    /\ UNCHANGED <<ohm_reader, metrics_vars, config_vars, workers>>

\* GET /api/metrics
MetricsRequest ==
    /\ pc = "serving"
    /\ \E env \in Envs(hardware), time \in Times :
          \E r \in {metrics_json(ohm_reader, hardware, env, time)} :
              /\ hardware' = r.Hardware
              /\ calls' = r.calls
              /\ sensors' = r.sensors
              /\ selected' = r.selected
              /\ response' = r.response
              /\ unchanged' = (/\ response.status = 200
                               /\ r.response.status = 200
                               /\ r.Hardware = hardware)
    /\ UNCHANGED <<pc, ohm_reader, config_vars, workers>>

\* a request to /api/config
ConfigRequest ==
    /\ pc = "serving"
    /\ served < MaxRequests
    /\ \E req \in Requests, flush \in Flushes :
          \E r \in {config_view(req, UI_CONFIG, config_file, flush)} :
              /\ request' = req
              /\ UI_CONFIG' = r.UI_CONFIG
              /\ config_file' = r.file
              /\ config_response' = r.response
    /\ served' = served + 1
    /\ UNCHANGED <<pc, ohm_reader, metrics_vars, workers>>

\* the read cycles of every machine of the model; no read cycle reads or
\* writes the configuration
Init == \E hw \in Machines : Loaded(hw, NoFile)

Next == MainStarts \/ MainFails \/ ServedWithoutMain \/ MetricsRequest

Spec == Init /\ [][Next]_vars

\* the read cycles of the memory devices of RamNameMachines
RamInit == \E hw \in RamNameMachines : Loaded(hw, NoFile)

RamSpec == RamInit /\ [][Next]_vars

\* the read cycles of the devices of PoolMachines
PoolInit == \E hw \in PoolMachines : Loaded(hw, NoFile)

PoolSpec == PoolInit /\ [][Next]_vars

\* the configuration requests on every configuration file of the model, on a
\* machine without devices; no configuration request touches the provider
ConfigInit == \E file \in Files : Loaded(<<>>, file)

ConfigNext == MainStarts \/ MainFails \/ ServedWithoutMain \/ ConfigRequest

ConfigSpec == ConfigInit /\ [][ConfigNext]_vars

(***************************************************************************)
(* Concurrent requests.  runserver serves every request on a thread of     *)
(* its own, and the module holds no lock: the threads share the provider   *)
(* tree, UI_CONFIG and config.ini.  A thread can be suspended between any   *)
(* two statements; the steps below are the statements between which the    *)
(* shared objects are read or written.  Each of the MaxWorkers threads      *)
(* serves one request.                                                     *)
(***************************************************************************)
\* GET /api/metrics, _update_all: the refresh pass over the shared tree
MetricsRefreshes(w) ==
    /\ pc = "serving"
    /\ ohm_reader # "None"
    /\ workers[w].at = "idle"
    /\ \E env \in Envs(hardware) :
          \E u \in {update_all(hardware, env)} :
              /\ hardware' = u.Hardware
              /\ workers' = [workers EXCEPT ![w].kind = "metrics",
                                            ![w].at = "refreshed"]
    /\ UNCHANGED <<pc, ohm_reader, calls, sensors, selected, response,
                   unchanged, config_vars>>

\* sensors = self._collect_sensors(): the shared tree as it is now
MetricsEnumerates(w) ==
    /\ workers[w].at = "refreshed"
    /\ workers' = [workers EXCEPT ![w].sensors = collect_sensors(hardware),
                                  ![w].at = "enumerated"]
    /\ UNCHANGED <<pc, ohm_reader, metrics_vars, config_vars>>

\* the selectors on the thread's own list, and the response
MetricsSelects(w) ==
    /\ workers[w].at = "enumerated"
    /\ \E time \in Times :
          workers' = [workers EXCEPT
              ![w].data = snapshot_of(select_all(workers[w].sensors), time),
              ![w].status = 200,
              ![w].at = "answered"]
    /\ UNCHANGED <<pc, ohm_reader, metrics_vars, config_vars>>

\* POST /api/config: the body decoded to a JSON object
ConfigDecodes(w) ==
    /\ pc = "serving"
    /\ workers[w].at = "idle"
    /\ \E payload \in ThreadedPayloads :
          workers' = [workers EXCEPT ![w].kind = "config",
                                     ![w].payload = payload,
                                     ![w].at = "decoded"]
    /\ UNCHANGED <<pc, ohm_reader, metrics_vars, config_vars>>

\* UI_CONFIG["order"] = _normalize_order(...)
ConfigSetsOrder(w) ==
    /\ workers[w].at = "decoded"
    /\ UI_CONFIG' = [UI_CONFIG EXCEPT
                        !.order = config_order(UI_CONFIG, workers[w].payload.order)]
    /\ workers' = [workers EXCEPT ![w].at = "order_set"]
    /\ UNCHANGED <<pc, ohm_reader, metrics_vars, config_file, request,
                   config_response, served>>

\* UI_CONFIG["update_interval_sec"] = max(0.05, float(...))
ConfigSetsInterval(w) ==
    /\ workers[w].at = "order_set"
    /\ UI_CONFIG' = [UI_CONFIG EXCEPT
                        !.update_interval_sec =
                            config_interval(UI_CONFIG,
                                workers[w].payload.update_interval_sec)]
    /\ workers' = [workers EXCEPT ![w].at = "interval_set"]
    /\ UNCHANGED <<pc, ohm_reader, metrics_vars, config_file, request,
                   config_response, served>>

\* save_ui_config(order=UI_CONFIG.get("order"), ...): the arguments are read
\* from UI_CONFIG
SaveCalled(w) ==
    /\ workers[w].at = "interval_set"
    /\ workers' = [workers EXCEPT
                      ![w].order = UI_CONFIG.order,
                      ![w].update_interval_sec = UI_CONFIG.update_interval_sec,
                      ![w].at = "save_called"]
    /\ UNCHANGED <<pc, ohm_reader, metrics_vars, config_vars>>

\* save_ui_config: cfg.read(CONFIG_PATH) and the cfg.set calls
SaveReads(w) ==
    /\ workers[w].at = "save_called"
    /\ workers' = [workers EXCEPT
                      ![w].cfg = save_cfg(config_file, workers[w].order,
                                          workers[w].update_interval_sec),
                      ![w].at = "save_read"]
    /\ UNCHANGED <<pc, ohm_reader, metrics_vars, config_vars>>

\* save_ui_config: open(CONFIG_PATH, "w") and cfg.write(f), and the response
SaveFlushes(w) ==
    /\ workers[w].at = "save_read"
    /\ \E flush \in Flushes :
          /\ config_file' = flushed(config_file, workers[w].cfg, flush)
          /\ workers' = [workers EXCEPT
                            ![w].status = IF flush = "ok" THEN 200 ELSE 500,
                            ![w].at = "answered"]
    /\ UNCHANGED <<pc, ohm_reader, metrics_vars, UI_CONFIG, request,
                   config_response, served>>

\* the server started by main() on a machine with one memory sensor and no
\* configuration file, its threads serving one request each
ThreadedInit == \E hw \in ThreadedMachines : Loaded(hw, NoFile)

ThreadedNext ==
    \/ MainStarts
    \/ \E w \in Workers :
          \/ MetricsRefreshes(w) \/ MetricsEnumerates(w) \/ MetricsSelects(w)
          \/ ConfigDecodes(w) \/ ConfigSetsOrder(w) \/ ConfigSetsInterval(w)
          \/ SaveCalled(w) \/ SaveReads(w) \/ SaveFlushes(w)

ThreadedSpec == ThreadedInit /\ [][ThreadedNext]_vars

(***************************************************************************)
(* Properties of the read cycle.  They are stated over the flattened list  *)
(* the selectors received (sensors), what they returned (selected) and the *)
(* response, with sets of list positions and exact fractions of their own. *)
(***************************************************************************)

\* the last request was answered with a snapshot
Served == response.status = 200

Snapshot == response.data

\* a reading that is present and finite
Usable(v) == v.k = "fin"

\* the whole number n as a reading
Whole(n) == [k |-> "fin", n |-> n, d |-> 1]

\* the positions of the usable readings of one sensor kind under the given
\* kinds of top-level device
Idx(kinds, type) ==
    {i \in DOMAIN sensors : /\ sensors[i].parent \in kinds
                            /\ sensors[i].SensorType = type
                            /\ Usable(sensors[i].Value)}

\* the readings at the positions I
Readings(I) == {sensors[i].Value : i \in I}

\* the sum of the readings at the positions I, as <<numerator, denominator>>
RECURSIVE RatSum(_)
RatSum(I) ==
    IF I = {} THEN <<0, 1>>
    ELSE LET i == CHOOSE j \in I : TRUE
             v == sensors[i].Value
             r == RatSum(I \ {i})
         IN  <<v.n * r[2] + r[1] * v.d, v.d * r[2]>>

\* x is the arithmetic mean of the readings at the positions I
AvgOf(x, I) ==
    /\ Usable(x)
    /\ x.n * RatSum(I)[2] * Cardinality(I) = RatSum(I)[1] * x.d

\* a <= b for usable readings
LeVal(a, b) == a.n * b.d <= b.n * a.d

\* x is the largest of the readings at the positions I
MaxOf(x, I) ==
    /\ \E i \in I : sensors[i].Value = x
    /\ \A i \in I : LeVal(sensors[i].Value, x)

\* the first non-empty set of a sequence of sets, {} if there is none
RECURSIVE FirstOf(_)
FirstOf(pools) ==
    IF pools = <<>> THEN {}
    ELSE IF Head(pools) # {} THEN Head(pools)
    ELSE FirstOf(Tail(pools))

\* the four pools of CPU temperatures: a sensor of the CPU device belongs to
\* the first of CCD, Core, Package its lower-cased name matches
CcdPool == {i \in Idx({"Cpu"}, "Temperature") : In(sensors[i], "ccd")}

CorePool ==
    {i \in Idx({"Cpu"}, "Temperature") \ CcdPool : In(sensors[i], "core")}

PackagePool ==
    {i \in Idx({"Cpu"}, "Temperature") \ (CcdPool \cup CorePool) :
        InAny(sensors[i], {"package", "tdie", "tctl", "cpu"})}

MainboardPool ==
    {i \in Idx({"Motherboard"}, "Temperature") :
        InAny(sensors[i], {"cpu", "cpu socket", "package", "tdie", "tctl"})}

C1_Pool == FirstOf(<<CcdPool, CorePool, PackagePool, MainboardPool>>)

\* C1: the CPU core_temp of a read cycle is the arithmetic mean of the first
\* non-empty pool in the order CCD, Core, Package, Mainboard-CPU, and is absent
\* exactly when all four pools are empty; with CCD readings {60, 64} and Core
\* readings {70, 85} the snapshot has core_temp 62.0, with the Core readings
\* alone 77.5.
C1_CoreTempIsFirstPoolAverage ==
    Served =>
        /\ C1_Pool = {} =>
               /\ selected.cpu_core_temp = None
               /\ Snapshot.cpu.core_temperature_c = None
        /\ C1_Pool # {} =>
               /\ AvgOf(selected.cpu_core_temp, C1_Pool)
               /\ Snapshot.cpu.core_temperature_c # None
        /\ (/\ Cardinality(CcdPool) = 2
            /\ Readings(CcdPool) = {Whole(60), Whole(64)}
            /\ Cardinality(CorePool) = 2
            /\ Readings(CorePool) = {Whole(70), Whole(85)}) =>
               Snapshot.cpu.core_temperature_c = Whole(62)
        /\ (/\ CcdPool = {}
            /\ Cardinality(CorePool) = 2
            /\ Readings(CorePool) = {Whole(70), Whole(85)}) =>
               Snapshot.cpu.core_temperature_c = [k |-> "fin", n |-> 155, d |-> 2]

\* a read cycle over CCD readings {60, 64} and Core readings {70, 85} answered
\* with core_temp 62.0
C1_Witness ==
    /\ Served
    /\ Readings(CcdPool) = {Whole(60), Whole(64)}
    /\ Readings(CorePool) = {Whole(70), Whole(85)}
    /\ Snapshot.cpu.core_temperature_c = Whole(62)

C2_Pool == FirstOf(<<CorePool, PackagePool, MainboardPool>>)

\* C2: the CPU hotspot of a read cycle is the maximum of the Core pool, else of
\* the Package pool, else of the Mainboard-CPU pool, and never comes from the
\* CCD pool: Core readings {70, 85} give 85.0, and a list whose only CPU
\* temperatures are CCD readings gives no hotspot.
C2_HotspotIsFirstPoolMax ==
    Served =>
        /\ C2_Pool = {} =>
               /\ selected.cpu_hotspot_temp = None
               /\ Snapshot.cpu.hotspot_temperature_c = None
        /\ C2_Pool # {} =>
               /\ MaxOf(selected.cpu_hotspot_temp, C2_Pool)
               /\ Snapshot.cpu.hotspot_temperature_c # None
        /\ Readings(CorePool) = {Whole(70), Whole(85)} =>
               Snapshot.cpu.hotspot_temperature_c = Whole(85)

\* a read cycle whose only CPU temperatures were CCD readings answered with a
\* core_temp and no hotspot
C2_Witness ==
    /\ Served
    /\ CcdPool # {}
    /\ C2_Pool = {}
    /\ Snapshot.cpu.core_temperature_c # None
    /\ Snapshot.cpu.hotspot_temperature_c = None

\* the list of the last read cycle without its unusable readings
UsableSensors == SelectSeq(sensors, LAMBDA e : Usable(e.Value))

\* the kinds of top-level device each part of the snapshot is computed from
DomainKinds ==
    [cpu |-> {"Cpu", "Motherboard"},
     ram |-> {"Memory"},
     gpu |-> {"GpuNvidia", "GpuAmd", "GpuIntel"},
     net |-> {"Network"}]

\* C3: a reading that is None, NaN or infinite takes no part in any aggregate:
\* every value of the snapshot is absent or finite, the snapshot is the one of
\* the list without its unusable readings, and a part of the snapshot whose
\* devices have no usable reading is absent throughout, not zero.
C3_OnlyFiniteReadingsCount ==
    Served =>
        /\ \A g \in DOMAIN DomainKinds : \A f \in DOMAIN Snapshot[g] :
               Snapshot[g][f].k \in {"none", "fin"}
        /\ Snapshot = snapshot_of(select_all(UsableSensors), Snapshot.timestamp)
        /\ \A g \in DOMAIN DomainKinds :
               (\A i \in DOMAIN sensors :
                    sensors[i].parent \in DomainKinds[g] => ~Usable(sensors[i].Value))
               => \A f \in DOMAIN Snapshot[g] : Snapshot[g][f] = None

\* a read cycle met a NaN CCD reading next to a usable one and answered with
\* the usable one as core_temp
C3_Witness ==
    /\ Served
    /\ \E i \in DOMAIN sensors : /\ sensors[i].Name = "CCD1 (Tdie)"
                                 /\ sensors[i].Value = NaN
    /\ Readings(CcdPool) = {Whole(64)}
    /\ Snapshot.cpu.core_temperature_c = Whole(64)

\* the half-unit distance test of rounding to digits decimals:
\* |y - n/d| <= 1 / (2 * 10^digits), for a usable y and d > 0
Near(y, n, d, digits) ==
    LET diff == y.n * d - n * y.d
        scale == IF digits = 0 THEN 1 ELSE 10
    IN  (IF diff < 0 THEN -diff ELSE diff) * 2 * scale <= y.d * d

\* the usable Data readings of the memory device whose lower-cased name
\* contains key
RamData(key) == {i \in Idx({"Memory"}, "Data") : In(sensors[i], key)}

\* the memory device offers one "used" and one "available" reading whose sum
\* is positive, and no usable Load reading
C4_Derivable ==
    /\ Idx({"Memory"}, "Load") = {}
    /\ Cardinality(RamData("used")) = 1
    /\ Cardinality(RamData("available")) = 1
    /\ \E u \in Readings(RamData("used")), a \in Readings(RamData("available")) :
           u.n * a.d + a.n * u.d > 0

\* C4: without a usable Load reading on the memory device, the RAM
\* usage_percent of the snapshot is used / (used + available) * 100, computed
\* from its Data readings "used" and "available" when their sum is positive
\* (8.0 and 8.0 give 50.0; 8.0 and 0.0 give 100.0).
C4_RamUsageDerivedFromUsedAvailable ==
    (Served /\ C4_Derivable) =>
        /\ Snapshot.ram.usage_percent # None
        /\ \A u \in Readings(RamData("used")), a \in Readings(RamData("available")) :
               Near(Snapshot.ram.usage_percent,
                    100 * u.n * a.d, u.n * a.d + a.n * u.d, 1)
        /\ (/\ Readings(RamData("used")) = {Whole(8)}
            /\ Readings(RamData("available")) = {Whole(8)}) =>
               Snapshot.ram.usage_percent = Whole(50)
        /\ (/\ Readings(RamData("used")) = {Whole(8)}
            /\ Readings(RamData("available")) = {Whole(0)}) =>
               Snapshot.ram.usage_percent = Whole(100)

\* the Load readings of network adapters that lie within [0, 100]
NetPool ==
    {i \in Idx({"Network"}, "Load") :
        /\ LeVal(Whole(0), sensors[i].Value)
        /\ LeVal(sensors[i].Value, Whole(100))}

Fields ==
    {<<"cpu", "core_temperature_c", "cpu_core_temp", 1>>,
     <<"cpu", "hotspot_temperature_c", "cpu_hotspot_temp", 1>>,
     <<"cpu", "usage_percent", "cpu_load", 1>>,
     <<"cpu", "max_clock_mhz", "cpu_clock_max_mhz", 0>>,
     <<"cpu", "avg_clock_mhz", "cpu_clock_avg_mhz", 0>>,
     <<"cpu", "power_w", "cpu_power", 1>>,
     <<"ram", "usage_percent", "ram_usage", 1>>,
     <<"ram", "used_gb", "ram_used_gb", 1>>,
     <<"ram", "free_gb", "ram_free_gb", 1>>,
     <<"gpu", "core_temperature_c", "gpu_core_temp", 1>>,
     <<"gpu", "hotspot_temperature_c", "gpu_hotspot_temp", 1>>,
     <<"gpu", "usage_percent", "gpu_load", 1>>,
     <<"gpu", "core_clock_mhz", "gpu_core_clock", 0>>,
     <<"gpu", "memory_clock_mhz", "gpu_mem_clock", 0>>,
     <<"gpu", "power_w", "gpu_power", 1>>,
     <<"net", "usage_percent", "net_load", 1>>}

\* y is x rounded to digits decimals, an absent x staying absent
RoundedTo(y, x, digits) ==
    IF x = None THEN y = None
    ELSE /\ Usable(y)
         /\ (y.n * (IF digits = 0 THEN 1 ELSE 10)) % y.d = 0
         /\ Near(y, x.n, x.d, digits)

\* C6: every numeric field of the snapshot is the selected value rounded to the
\* field's precision, 1 decimal for temperatures, percentages and power and 0
\* for clocks (power 42.349 becomes 42.3, clock 3799.6 becomes 3800), and an
\* absent selected value stays absent, never zero.
C6_FieldsAreRoundedSelections ==
    Served =>
        /\ \A t \in Fields : RoundedTo(Snapshot[t[1]][t[2]], selected[t[3]], t[4])
        /\ selected.cpu_power = [k |-> "fin", n |-> 42349, d |-> 1000] =>
               Snapshot.cpu.power_w = [k |-> "fin", n |-> 423, d |-> 10]
        /\ selected.cpu_clock_max_mhz = [k |-> "fin", n |-> 18998, d |-> 5] =>
               Snapshot.cpu.max_clock_mhz = Whole(3800)

\* a read cycle selected the power 42.349 and the clock 3799.6 and found no
\* CPU temperature: the snapshot shows 42.3, 3800 and no core_temp
C6_Witness ==
    /\ Served
    /\ selected.cpu_power = [k |-> "fin", n |-> 42349, d |-> 1000]
    /\ Snapshot.cpu.power_w = [k |-> "fin", n |-> 423, d |-> 10]
    /\ selected.cpu_clock_max_mhz = [k |-> "fin", n |-> 18998, d |-> 5]
    /\ Snapshot.cpu.max_clock_mhz = Whole(3800)
    /\ selected.cpu_core_temp = None
    /\ Snapshot.cpu.core_temperature_c = None

\* two snapshots agree in every field but the timestamp
SameButTime(a, b) == [a EXCEPT !.timestamp = 0] = [b EXCEPT !.timestamp = 0]

\* the device at a place of the tree hw
DeviceAt(hw, path) ==
    IF Len(path) = 1 THEN hw[path[1]]
    ELSE hw[path[1]].SubHardware[path[2]]

\* the places of the tree hw
Places(hw) ==
    {<<i>> : i \in DOMAIN hw} \cup
    UNION {{<<i, j>> : j \in DOMAIN hw[i].SubHardware} : i \in DOMAIN hw}

\* the number of sensors of the devices at the places P of the tree hw
RECURSIVE SensorCount(_, _)
SensorCount(hw, P) ==
    IF P = {} THEN 0
    ELSE LET p == CHOOSE q \in P : TRUE
         IN  Len(DeviceAt(hw, p).Sensors) + SensorCount(hw, P \ {p})

\* the list lst holds the readings the devices of the tree hw hold
ListsReadingsOf(lst, hw) ==
    /\ Len(lst) = SensorCount(hw, Places(hw))
    /\ \A i \in DOMAIN lst :
           \E k \in DOMAIN DeviceAt(hw, lst[i].dev).Sensors :
               /\ DeviceAt(hw, lst[i].dev).Sensors[k].Name = lst[i].Name
               /\ DeviceAt(hw, lst[i].dev).Sensors[k].Value = lst[i].Value

\* C7: read cycles are stateless: a read cycle that finds the provider's
\* readings as the answered cycle before it left them returns the same
\* snapshot but for the timestamp, whatever cycles came earlier; the list of a
\* cycle holds the readings the provider holds then and none of an earlier
\* cycle, and a cycle leaves the readings of a device alone unless the
\* provider refreshed them.
C7_ReadCyclesAreStateless ==
    [][(pc = "serving" /\ ohm_reader = "reader") =>
          /\ (/\ response.status = 200
              /\ response'.status = 200
              /\ hardware' = hardware) => SameButTime(response'.data, response.data)
          /\ ListsReadingsOf(sensors', hardware')
          /\ \A p \in Places(hardware) :
                 (\A j \in DOMAIN calls' : calls'[j].dev = p => ~calls'[j].ok)
                 => DeviceAt(hardware', p).Sensors = DeviceAt(hardware, p).Sensors
      ]_vars

\* a read cycle refreshed a device, found every reading as the answered cycle
\* before it had left them, and answered with a snapshot that shows a value
C7_Witness ==
    /\ unchanged
    /\ Served
    /\ \E j \in DOMAIN calls : calls[j].ok
    /\ \E t \in Fields : Snapshot[t[1]][t[2]] # None

\* the response carries no snapshot
NoData == \A t \in Fields : response.data[t[1]][t[2]] = None

\* C8: while the reader was never constructed a metrics request is answered
\* with the "not initialized" error, status 500, carries no snapshot and
\* attempts no refresh; once the reader is constructed a metrics request is
\* answered with a snapshot and status 200.
C8_NotInitializedIsReported ==
    response.status # 0 =>
        /\ ohm_reader = "None" =>
               /\ response.status = 500
               /\ response.error = "LibreHardwareMonitor not initialized"
               /\ NoData
               /\ calls = <<>>
               /\ sensors = <<>>
        /\ ohm_reader = "reader" =>
               /\ response.status = 200
               /\ response.error = ""

\* a metrics request was answered while the reader had not been constructed
C8_Witness ==
    /\ ohm_reader = "None"
    /\ pc = "serving"
    /\ response.status = 500
    /\ response.error = "LibreHardwareMonitor not initialized"

\* C9: a refresh that raises on a device or sub-device does not end the read
\* cycle: whichever devices fail, the refresh goes on to the next device, the
\* sensors of the whole tree are listed, and the request is answered with a
\* snapshot, status 200 and no error.
C9_RefreshFailureDoesNotAbort ==
    (ohm_reader = "reader" /\ response.status # 0) =>
        /\ response.status = 200
        /\ response.error = ""
        /\ \A i \in DOMAIN hardware : \E j \in DOMAIN calls : calls[j].dev = <<i>>
        /\ Len(sensors) = SensorCount(hardware, Places(hardware))
        /\ \A t \in Fields : RoundedTo(Snapshot[t[1]][t[2]], selected[t[3]], t[4])

\* a read cycle in which the refresh of one device raised and that of a later
\* one succeeded was answered with a snapshot that shows a value
C9_Witness ==
    /\ Served
    /\ \E i, j \in DOMAIN calls : i < j /\ ~calls[i].ok /\ calls[j].ok
    /\ \E t \in Fields : Snapshot[t[1]][t[2]] # None

\* C10: a device whose refresh failed in a read cycle has none of its sensors
\* in the list given to the selectors in that cycle.
C10_FailedDeviceIsExcluded ==
    Served =>
        \A i \in DOMAIN sensors : \A j \in DOMAIN calls :
            ~calls[j].ok => sensors[i].dev # calls[j].dev

(***************************************************************************)
(* Properties of the configuration.  They are stated over the last request *)
(* to /api/config, its response, UI_CONFIG and the file on disk.           *)
(***************************************************************************)

\* the last request to /api/config was a write whose body decoded to an object
WroteObject ==
    /\ request.method = "POST"
    /\ request.body.form \in {"empty", "json"}
    /\ request.body.form = "json" => request.body.value.type = "object"

\* the object submitted by the last write
Payload ==
    IF request.body.form = "json" THEN request.body.value ELSE EmptyObject

\* the last write submitted a list as order
WroteOrder == WroteObject /\ Payload.order.kind = "list"

\* the canonical key a submitted key stands for
CanonOf(key) == IF key = "cpu_temp" THEN "cpu_core_temp" ELSE key

Canonical == {SENSOR_KEYS_DEFAULT[i] : i \in DOMAIN SENSOR_KEYS_DEFAULT}

\* the place of a key in a list that holds it
PlaceIn(list, key) == CHOOSE i \in DOMAIN list : list[i] = key

\* the place of the first key of input that stands for the canonical key
FirstAs(input, key) ==
    CHOOSE i \in DOMAIN input :
        /\ CanonOf(input[i]) = key
        /\ \A j \in 1..(i - 1) : CanonOf(input[j]) # key

\* the canonical keys the keys of input stand for
Recognized(input) == {CanonOf(input[i]) : i \in DOMAIN input} \cap Canonical

\* result is a permutation of the canonical keys
IsPermutation(result) ==
    /\ Len(result) = Cardinality(Canonical)
    /\ {result[i] : i \in DOMAIN result} = Canonical

\* result lists the recognized keys of input in the order of their first
\* occurrence, then the other canonical keys in default order
IsNormalized(result, input) ==
    /\ IsPermutation(result)
    /\ \A i \in DOMAIN result :
           result[i] \in Recognized(input) <=> i <= Cardinality(Recognized(input))
    /\ \A a, b \in Recognized(input) :
           FirstAs(input, a) < FirstAs(input, b)
           => PlaceIn(result, a) < PlaceIn(result, b)
    /\ \A a, b \in Canonical \ Recognized(input) :
           PlaceIn(SENSOR_KEYS_DEFAULT, a) < PlaceIn(SENSOR_KEYS_DEFAULT, b)
           => PlaceIn(result, a) < PlaceIn(result, b)

\* the keys of the hand-written order of Files, as load_ui_config reads them
HandWrittenKeys == <<"gpu_power", "cpu_temp", "fan_rpm", "gpu_power">>

HandWrittenFile ==
    IniFile("ui" :> (("order" :> <<" ", "gpu_power", " ", ",", "cpu_temp", ",",
                                   ",", "fan_rpm", ",", "gpu_power">>)
                     @@ ("update_interval_sec" :> <<"0", ".", "5">>)))

\* C11: order normalization returns the recognized keys of its input, the
\* alias cpu_temp standing for cpu_core_temp, in the order of their first
\* occurrence, without duplicates and unknown keys, followed by the missing
\* canonical keys in default order; the result is a permutation of the 16
\* canonical keys.  Checked where the program normalizes: an order submitted
\* to /api/config, and the order of the file loaded at startup.
C11_OrderIsNormalized ==
    /\ IsPermutation(UI_CONFIG.order)
    /\ Cardinality(Canonical) = 16
    /\ WroteOrder => IsNormalized(UI_CONFIG.order, Payload.order.items)
    /\ (ohm_reader = "reader" /\ served = 0 /\ config_file = HandWrittenFile)
           => IsNormalized(UI_CONFIG.order, HandWrittenKeys)

\* the order gpu_power, cpu_temp was submitted: UI_CONFIG holds gpu_power,
\* cpu_core_temp, then the 14 others from cpu_hotspot_temp to gpu_usage
C11_Witness ==
    /\ WroteOrder
    /\ Payload.order.items = <<"gpu_power", "cpu_temp">>
    /\ UI_CONFIG.order =
           <<"gpu_power", "cpu_core_temp", "cpu_hotspot_temp", "cpu_usage",
             "net_load", "cpu_clock_max", "cpu_clock_avg", "cpu_power",
             "ram_usage", "ram_used", "ram_free", "gpu_core_temp",
             "gpu_hotspot_temp", "gpu_clock", "gpu_mem_clock", "gpu_usage">>

\* the last request was a write answered with {ok: true}
WriteSucceeded == WroteObject /\ config_response.status = 200 /\ config_response.ok

\* what loading the file on disk yields
Persisted == load_ui_config(config_file)

\* C12: configuration round trip: after an order list is saved, loading the
\* persisted configuration yields the normalized order: the saved recognized
\* keys first, in the saved order, then the other canonical keys in default
\* order, without duplicates; saving gpu_power, cpu_usage loads as gpu_power,
\* cpu_usage and the remaining 14 keys in default order.
C12_SavedOrderLoadsNormalized ==
    WriteSucceeded =>
        /\ IsPermutation(Persisted.order)
        /\ Persisted.order = UI_CONFIG.order
        /\ WroteOrder => IsNormalized(Persisted.order, Payload.order.items)
        /\ (WroteOrder /\ Payload.order.items = <<"gpu_power", "cpu_usage">>) =>
               Persisted.order =
                   <<"gpu_power", "cpu_usage", "cpu_core_temp", "cpu_hotspot_temp",
                     "net_load", "cpu_clock_max", "cpu_clock_avg", "cpu_power",
                     "ram_usage", "ram_used", "ram_free", "gpu_core_temp",
                     "gpu_hotspot_temp", "gpu_clock", "gpu_mem_clock", "gpu_usage">>

\* the order gpu_power, cpu_usage was saved into a file that holds another
\* section, and loads as gpu_power, cpu_usage, cpu_core_temp, ...
C12_Witness ==
    /\ WriteSucceeded
    /\ WroteOrder
    /\ Payload.order.items = <<"gpu_power", "cpu_usage">>
    /\ SubSeq(Persisted.order, 1, 3) = <<"gpu_power", "cpu_usage", "cpu_core_temp">>
    /\ "window" \in DOMAIN config_file.cfg

\* the last write submitted a finite number as update_interval_sec
WroteInterval ==
    /\ WroteObject
    /\ Payload.update_interval_sec.kind = "number"
    /\ Usable(Payload.update_interval_sec.num)

\* the text a file holds as update_interval_sec, <<>> if it holds none
PersistedIntervalText ==
    IF config_file.exists /\ config_file.parses /\ "ui" \in DOMAIN config_file.cfg
       /\ "update_interval_sec" \in DOMAIN config_file.cfg["ui"]
    THEN config_file.cfg["ui"]["update_interval_sec"]
    ELSE <<>>

\* C13: a configuration write that submits an update_interval_sec below 0.05,
\* such as 0.01, stores 0.05 in UI_CONFIG and persists 0.05; a submitted value
\* of 0.05 or more is stored as it is.
C13_IntervalIsClampedAtMinimum ==
    WroteInterval =>
        /\ ~LeVal([k |-> "fin", n |-> 1, d |-> 20], Payload.update_interval_sec.num) =>
               /\ UI_CONFIG.update_interval_sec = [k |-> "fin", n |-> 1, d |-> 20]
               /\ WriteSucceeded =>
                      /\ PersistedIntervalText = <<"0", ".", "0", "5", "0">>
                      /\ Persisted.update_interval_sec = [k |-> "fin", n |-> 1, d |-> 20]
        /\ LeVal([k |-> "fin", n |-> 1, d |-> 20], Payload.update_interval_sec.num) =>
               UI_CONFIG.update_interval_sec = Payload.update_interval_sec.num

\* 0.01 was submitted and saved: UI_CONFIG and the file hold 0.05
C13_Witness ==
    /\ WroteInterval
    /\ WriteSucceeded
    /\ Payload.update_interval_sec.num = [k |-> "fin", n |-> 1, d |-> 100]
    /\ UI_CONFIG.update_interval_sec = [k |-> "fin", n |-> 1, d |-> 20]
    /\ PersistedIntervalText = <<"0", ".", "0", "5", "0">>

\* C14: when persisting fails during a configuration write, the writer is
\* answered with status 500 and not with {ok: true}, and the configuration
\* persisted before is untouched: loading the file after the failed write
\* yields what loading it before the write yielded, whichever step of the
\* flush failed.
C14_FailedWriteLeavesFileUntouched ==
    [][(/\ served' = served + 1
        /\ config_response'.error = "Failed to save config") =>
           /\ config_response'.status = 500
           /\ ~config_response'.ok
           /\ load_ui_config(config_file') = load_ui_config(config_file)
      ]_vars

\* a body that is not well-formed: bytes that do not decode, text that is not
\* JSON, or JSON that is not an object
IllFormed(body) ==
    \/ body.form \in {"undecodable", "invalid"}
    \/ body.form = "json" /\ body.value.type # "object"

\* C15: a configuration write whose body is not well-formed (undecodable
\* bytes, invalid JSON, or JSON that is not an object) is answered with status
\* 400 and changes neither UI_CONFIG nor the file on disk.
C15_IllFormedWriteIsRejected ==
    [][(/\ served' = served + 1
        /\ request'.method = "POST"
        /\ IllFormed(request'.body)) =>
           /\ config_response'.status = 400
           /\ UI_CONFIG' = UI_CONFIG
           /\ config_file' = config_file
      ]_vars

\* a configuration file that is missing, cannot be parsed, or has no ui section
Unreadable(file) == ~file.exists \/ ~file.parses \/ "ui" \notin DOMAIN file.cfg

\* C16: loading never fails: from a file that is missing, malformed or
\* without a ui section, load_ui_config returns the canonical default order
\* with update_interval_sec 1.0, main() holds that configuration once it has
\* loaded, and main() can always go on to start the server.
C16_LoadFallsBackToDefaults ==
    /\ Unreadable(config_file) =>
          load_ui_config(config_file) =
              [order |-> SENSOR_KEYS_DEFAULT, update_interval_sec |-> Fin(1, 1)]
    /\ (pc # "start" /\ ohm_reader = "reader" /\ served = 0
          /\ Unreadable(config_file)) =>
          UI_CONFIG = [order |-> SENSOR_KEYS_DEFAULT, update_interval_sec |-> Fin(1, 1)]
    /\ pc = "start" => ENABLED MainStarts

\* main() started the server from a file that cannot be parsed
C16_Witness ==
    /\ pc = "serving"
    /\ ohm_reader = "reader"
    /\ served = 0
    /\ config_file = Malformed
    /\ UI_CONFIG.order = SENSOR_KEYS_DEFAULT

(***************************************************************************)
(* Properties of concurrent requests.                                      *)
(***************************************************************************)
\* the thread w is inside a read cycle: it has refreshed the provider and
\* has not yet selected from the list it enumerates
InReadCycle(w) == workers[w].at \in {"refreshed", "enumerated"}

\* C17: read cycles on the shared provider are mutually exclusive: no two
\* threads are at the same time between the refresh and the selection of
\* their read cycle.
C17_ReadCyclesAreMutuallyExclusive ==
    \A v, w \in Workers : v # w => ~(InReadCycle(v) /\ InReadCycle(w))

\* the configuration after the write of payload on the configuration config
Written(payload, config) ==
    [order |-> config_order(config, payload.order),
     update_interval_sec |->
         config_interval(config, payload.update_interval_sec)]

\* the thread w has answered a configuration write with success
WriteAnswered(w) ==
    /\ workers[w].kind = "config"
    /\ workers[w].at = "answered"
    /\ workers[w].status = 200

\* C18: once two concurrent configuration writes have both completed with
\* success (and no other thread is at work), the configuration persisted in the
\* file equals UI_CONFIG, and both equal the result of the two writes applied
\* one after the other in some order to the configuration loaded at startup.
C18_ConcurrentWritesAreSerializable ==
    \A v, w \in Workers :
        (/\ v # w
         /\ WriteAnswered(v)
         /\ WriteAnswered(w)
         /\ \A x \in Workers \ {v, w} : workers[x].at = "idle") =>
            /\ load_ui_config(config_file) = UI_CONFIG
            /\ UI_CONFIG \in
                  {Written(workers[w].payload,
                           Written(workers[v].payload, load_ui_config(NoFile))),
                   Written(workers[v].payload,
                           Written(workers[w].payload, load_ui_config(NoFile)))}

(***************************************************************************)
(* Properties of the memory readings.                                      *)
(***************************************************************************)
\* the last position of a non-empty set of positions
LastOf(I) == CHOOSE i \in I : \A j \in I : j <= i

\* the positions of the usable readings of physical memory: the sensor's
\* lower-cased name does not contain "virtual"
Physical(type) == {i \in Idx({"Memory"}, type) : ~In(sensors[i], "virtual")}

\* the usable Load readings of physical memory whose name contains one of
\* "memory", "ram", "load", "usage"
RamLoadPool ==
    {i \in Physical("Load") :
        InAny(sensors[i], {"memory", "ram", "load", "usage"})}

RamUsedPool == {i \in Physical("Data") : In(sensors[i], "used")}

\* the usable Data readings of physical memory whose name contains
\* "available" or "free"
RamFreePool == {i \in Physical("Data") : InAny(sensors[i], {"available", "free"})}

\* the selected value x and the field y of the snapshot are the last reading
\* of the pool I, and absent when the pool is empty
LastOfPool(x, y, I) ==
    IF I = {} THEN x = None /\ y = None
    ELSE x = sensors[LastOf(I)].Value /\ RoundedTo(y, x, 1)

\* the field y of the snapshot, when present, is a reading of physical memory
\* of the given sensor kind
FromPhysical(y, type) ==
    y # None => \E i \in Physical(type) : RoundedTo(y, sensors[i].Value, 1)

\* C20: RAM used_gb is the last usable Data reading of the memory device whose
\* sensor name contains "used", free_gb the last whose name contains
\* "available" or "free", sensors whose name contains "virtual" left aside;
\* none of used_gb, free_gb and usage_percent is the reading of a sensor
\* whose name contains "virtual".
C20_UsedAndFreeAreLastPhysicalData ==
    Served =>
        /\ LastOfPool(selected.ram_used_gb, Snapshot.ram.used_gb, RamUsedPool)
        /\ LastOfPool(selected.ram_free_gb, Snapshot.ram.free_gb, RamFreePool)
        /\ FromPhysical(Snapshot.ram.used_gb, "Data")
        /\ FromPhysical(Snapshot.ram.free_gb, "Data")
        /\ FromPhysical(Snapshot.ram.usage_percent, "Load")

\* a read cycle over the "Memory Used" readings 8 and 3 followed by the
\* "Virtual Memory Used" reading 20 answered with used_gb 3
C20_Witness ==
    /\ Served
    /\ Len(sensors) = 3
    /\ RamUsedPool = {1, 2}
    /\ sensors[1].Value = Whole(8)
    /\ sensors[2].Value = Whole(3)
    /\ 3 \in Idx({"Memory"}, "Data")
    /\ In(sensors[3], "virtual")
    /\ In(sensors[3], "used")
    /\ Snapshot.ram.used_gb = Whole(3)
    /\ Snapshot.ram.free_gb = None

(***************************************************************************)
(* Properties of the refresh pass.                                         *)
(***************************************************************************)
\* the Update() calls of the last read cycle on the device at a place
CallsOn(path) == {j \in DOMAIN calls : calls[j].dev = path}

\* C27: refresh failures are isolated per device: in the refresh pass of a
\* read cycle every top-level device and every sub-device is asked to refresh
\* exactly once, whichever refreshes failed, the sub-devices of a top-level
\* device whose own refresh failed included.
C27_EveryDeviceIsRefreshedOnce ==
    (ohm_reader = "reader" /\ response.status # 0) =>
        \A path \in Places(hardware) : Cardinality(CallsOn(path)) = 1

\* an interval of at least 0.05
AtLeastMinimum(x) ==
    \/ x.k = "inf"
    \/ Usable(x) /\ LeVal([k |-> "fin", n |-> 1, d |-> 20], x)

\* C23: in every state reached by the startup load and any sequence of
\* configuration reads and writes, with any body and any outcome of the flush,
\* the order of UI_CONFIG holds each of the 16 canonical keys exactly once and
\* nothing else and its update_interval_sec is at least 0.05; every response
\* to a configuration read has status 200 and shows such an order and interval.
C23_ConfigurationIsWellFormed ==
    /\ IsPermutation(UI_CONFIG.order)
    /\ AtLeastMinimum(UI_CONFIG.update_interval_sec)
    /\ (served > 0 /\ request.method = "GET") =>
           /\ config_response.status = 200
           /\ IsPermutation(config_response.order)
           /\ AtLeastMinimum(config_response.update_interval_sec)

\* the second request, a configuration read, shows the full order led by
\* gpu_power, as UI_CONFIG and the file hold it
C23_Witness ==
    /\ served = 2
    /\ request.method = "GET"
    /\ config_response.status = 200
    /\ config_response.order = UI_CONFIG.order
    /\ UI_CONFIG.order[1] = "gpu_power"
    /\ Len(config_response.order) = 16
    /\ Persisted.order = UI_CONFIG.order

\* x rounded to three fraction digits, a tie going to the even digit
RoundedToThousandth(y, x) ==
    IF ~Usable(x) THEN y = x
    ELSE /\ Usable(y)
         /\ (y.n * 1000) % y.d = 0
         /\ LET diff == y.n * x.d - x.n * y.d
            IN  \/ (IF diff < 0 THEN -diff ELSE diff) * 2000 < y.d * x.d
                \/ /\ (IF diff < 0 THEN -diff ELSE diff) * 2000 = y.d * x.d
                   /\ ((y.n * 1000) \div y.d) % 2 = 0

\* C25 as stated: after a configuration write answered {ok: true}, loading the
\* file yields exactly the order and exactly the update_interval_sec of
\* UI_CONFIG, which a following configuration read returns, whatever the
\* fraction digits of the interval.
C25_PersistedEqualsInMemory ==
    WriteSucceeded =>
        /\ Persisted.order = UI_CONFIG.order
        /\ Persisted.update_interval_sec = UI_CONFIG.update_interval_sec

\* C25: after a configuration write answered {ok: true}, loading the file
\* yields exactly the order of UI_CONFIG, and as update_interval_sec the
\* interval of UI_CONFIG rounded to three fraction digits: the two intervals
\* are equal when the one in memory has at most three fraction digits, and
\* 0.0625 in memory is 0.062 in the file.
C25_PersistedIsInMemoryToThreeDigits ==
    WriteSucceeded =>
        /\ Persisted.order = UI_CONFIG.order
        /\ RoundedToThousandth(Persisted.update_interval_sec,
                               UI_CONFIG.update_interval_sec)
        /\ (Usable(UI_CONFIG.update_interval_sec)
              /\ (UI_CONFIG.update_interval_sec.n * 1000)
                     % UI_CONFIG.update_interval_sec.d = 0) =>
               Persisted.update_interval_sec = UI_CONFIG.update_interval_sec
        /\ UI_CONFIG.update_interval_sec = [k |-> "fin", n |-> 1, d |-> 16] =>
               Persisted.update_interval_sec = [k |-> "fin", n |-> 31, d |-> 500]

\* the interval 0.0625 was submitted and saved: UI_CONFIG holds 0.0625 and the
\* file 0.062
C25_Witness ==
    /\ WriteSucceeded
    /\ Payload.update_interval_sec.kind = "number"
    /\ Payload.update_interval_sec.num = [k |-> "fin", n |-> 1, d |-> 16]
    /\ UI_CONFIG.update_interval_sec = [k |-> "fin", n |-> 1, d |-> 16]
    /\ PersistedIntervalText = <<"0", ".", "0", "6", "2">>

\* a step that serves a configuration write whose body decoded to an object
WriteStep == served' = served + 1 /\ WroteObject'

\* the file holds both fields of the configuration cfg, the interval to three
\* fraction digits
HoldsBoth(file, cfg) ==
    /\ file.exists /\ file.parses /\ "ui" \in DOMAIN file.cfg
    /\ {"order", "update_interval_sec"} \subseteq DOMAIN file.cfg["ui"]
    /\ load_ui_config(file).order = cfg.order
    /\ RoundedToThousandth(load_ui_config(file).update_interval_sec,
                           cfg.update_interval_sec)

\* the write of the step was not refused for what it omits: it is answered
\* {ok: true} with both fields of UI_CONFIG in the file, unless the flush failed
AnsweredInFull ==
    \/ /\ config_response'.status = 200
       /\ config_response'.ok
       /\ HoldsBoth(config_file', UI_CONFIG')
    \/ /\ config_response'.status = 500
       /\ config_response'.error = "Failed to save config"

\* C26 as stated: a configuration write changes only the fields it validly
\* supplies: without an order that is a list the order of UI_CONFIG is
\* unchanged, without an update_interval_sec that is a number the interval of
\* UI_CONFIG is unchanged, and the request is answered {ok: true} with both
\* fields written to the file.
C26_OnlyListsAndNumbersChangeFields ==
    [][WriteStep =>
          /\ Payload'.order.kind # "list" => UI_CONFIG'.order = UI_CONFIG.order
          /\ Payload'.update_interval_sec.kind # "number" =>
                 UI_CONFIG'.update_interval_sec = UI_CONFIG.update_interval_sec
          /\ AnsweredInFull
      ]_vars

\* the number a submitted update_interval_sec converts to, None if it is
\* neither a number nor a string that spells one
Converted(interval) ==
    CASE interval.kind = "number" -> interval.num
      [] interval.kind = "string" /\ FloatParses(interval.text) ->
             ParseFloat(interval.text)
      [] OTHER -> None

\* C26: a configuration write changes only the fields it supplies in a usable
\* form: without an order that is a list the order of UI_CONFIG is unchanged;
\* without an update_interval_sec that is a number or a string spelling a
\* number the interval of UI_CONFIG is unchanged, and a string such as "2.5"
\* sets the interval as the number 2.5 does; the request is answered
\* {ok: true} with both fields written to the file, unless the flush fails.
C26_OnlyUsableFieldsChange ==
    [][WriteStep =>
          /\ Payload'.order.kind # "list" => UI_CONFIG'.order = UI_CONFIG.order
          /\ Converted(Payload'.update_interval_sec) = None =>
                 UI_CONFIG'.update_interval_sec = UI_CONFIG.update_interval_sec
          /\ Usable(Converted(Payload'.update_interval_sec)) =>
                 /\ AtLeastMinimum(UI_CONFIG'.update_interval_sec)
                 /\ \/ UI_CONFIG'.update_interval_sec =
                           Converted(Payload'.update_interval_sec)
                    \/ UI_CONFIG'.update_interval_sec =
                           [k |-> "fin", n |-> 1, d |-> 20]
          /\ Payload'.update_interval_sec =
                 [kind |-> "string", num |-> None, text |-> <<"2", ".", "5">>] =>
                 UI_CONFIG'.update_interval_sec = [k |-> "fin", n |-> 5, d |-> 2]
          /\ AnsweredInFull
      ]_vars

\* a write that submitted no order and the string "2.5" was answered
\* {ok: true}: UI_CONFIG keeps the order led by gpu_power, holds the interval
\* 2.5, and the file holds both
C26_Witness ==
    /\ WriteSucceeded
    /\ Payload.order.kind = "absent"
    /\ Payload.update_interval_sec.kind = "string"
    /\ Payload.update_interval_sec.text = <<"2", ".", "5">>
    /\ UI_CONFIG.order[1] = "gpu_power"
    /\ UI_CONFIG.update_interval_sec = [k |-> "fin", n |-> 5, d |-> 2]
    /\ HoldsBoth(config_file, UI_CONFIG)

(***************************************************************************)
(* Properties of the pools of one device.                                  *)
(***************************************************************************)
\* the usable Temperature readings of GPU devices, those of the hot spot by
\* the sensor's name, and the others
GpuTemps ==
    Idx({"GpuNvidia", "GpuAti", "GpuAmd", "GpuAmdRadeon", "GpuIntel"}, "Temperature")

GpuHotspotPool ==
    {i \in GpuTemps : InAny(sensors[i], {"hot spot", "hotspot", "junction"})}

GpuCorePool == GpuTemps \ GpuHotspotPool

\* the selected value x and the field y of the snapshot are the maximum of
\* the pool I, and absent when the pool is empty
MaxOfPool(x, y, I) ==
    IF I = {} THEN x = None /\ y = None
    ELSE MaxOf(x, I) /\ RoundedTo(y, x, 1)

\* C21: the usable Temperature readings of GPU devices fall into two disjoint
\* pools, the hot-spot pool of the names containing "hot spot", "hotspot" or
\* "junction" and the core pool of all other names; GPU hotspot_temp is the
\* maximum of the hot-spot pool and GPU core_temp the maximum of the core
\* pool, each absent when its pool is empty; being the maximum of its pool,
\* each is a Temperature reading and never one of another kind.
C21_GpuTempsAreMaximaOfTwoPools ==
    Served =>
        /\ GpuHotspotPool \cap GpuCorePool = {}
        /\ GpuHotspotPool \cup GpuCorePool = GpuTemps
        /\ MaxOfPool(selected.gpu_hotspot_temp, Snapshot.gpu.hotspot_temperature_c,
                     GpuHotspotPool)
        /\ MaxOfPool(selected.gpu_core_temp, Snapshot.gpu.core_temperature_c,
                     GpuCorePool)

\* a read cycle over the core readings 65 and 50, in this order, and the
\* junction reading 90 answered with core_temp 65 and hotspot_temp 90
C21_Witness ==
    /\ Served
    /\ Len(sensors) = 3
    /\ GpuCorePool = {1, 2}
    /\ sensors[1].Value = Whole(65)
    /\ sensors[2].Value = Whole(50)
    /\ GpuHotspotPool = {3}
    /\ Snapshot.gpu.core_temperature_c = Whole(65)
    /\ Snapshot.gpu.hotspot_temperature_c = Whole(90)

\* the first position of a non-empty set of positions
FirstPositionOf(I) == CHOOSE i \in I : \A j \in I : i <= j

\* the usable Load readings of the CPU whose trimmed, lower-cased name is
\* "cpu total" or "total"
CpuTotalPool ==
    {i \in Idx({"Cpu"}, "Load") :
        StrippedNameIs(sensors[i], "cpu total") \/ StrippedNameIs(sensors[i], "total")}

\* C22: CPU usage_percent is the first, in list order, of the usable Load
\* readings of the CPU whose trimmed, lower-cased name is exactly "cpu total"
\* or "total"; without one it is the average of all usable Load readings of
\* the CPU, and it is absent when the CPU has no usable Load reading.
C22_CpuUsageIsTotalOrAverage ==
    Served =>
        /\ CpuTotalPool # {} =>
               selected.cpu_load = sensors[FirstPositionOf(CpuTotalPool)].Value
        /\ (CpuTotalPool = {} /\ Idx({"Cpu"}, "Load") # {}) =>
               AvgOf(selected.cpu_load, Idx({"Cpu"}, "Load"))
        /\ Idx({"Cpu"}, "Load") = {} => selected.cpu_load = None
        /\ RoundedTo(Snapshot.cpu.usage_percent, selected.cpu_load, 1)

\* a read cycle over the loads 20 of " Total ", 12.5 of "CPU Total" and 80 of
\* a core, in this order, answered with 20
C22_Witness ==
    /\ Served
    /\ Len(sensors) = 3
    /\ CpuTotalPool = {1, 2}
    /\ sensors[1].Value = Whole(20)
    /\ sensors[2].Value = [k |-> "fin", n |-> 25, d |-> 2]
    /\ Idx({"Cpu"}, "Load") = {1, 2, 3}
    /\ Snapshot.cpu.usage_percent = Whole(20)

\* the list of the last read cycle rearranged by the permutation f of its
\* positions
Rearranged(f) == [i \in DOMAIN sensors |-> sensors[f[i]]]

\* C24: the engine treats its input as an unordered collection: the snapshot
\* of a read cycle is, except for the timestamp, the snapshot the selectors
\* and the rounding give for every permutation of the cycle's sensor list.
C24_SnapshotIsOrderIndependent ==
    Served =>
        \A f \in Permutations(DOMAIN sensors) :
            SameButTime(snapshot_of(select_all(Rearranged(f)), 0), Snapshot)

=============================================================================
